---- MODULE Spec2Model ----
(***************************************************************************)
(* Benefits calculator: the employee document store (employeeStore.ts),    *)
(* the in-memory service (benefitsService.ts) and the benefits             *)
(* calculation, with the HTTP route handlers that call them.               *)
(*                                                                         *)
(* Money is a JavaScript number.  Every amount the code produces is an     *)
(* integer or an integer divided by 26, so amounts are modelled as exact   *)
(* rationals in lowest terms, [num, den]; floating-point rounding of the   *)
(* division is abstracted away.                                            *)
(* Strings are sequences of one-character strings, so that toLowerCase     *)
(* and startsWith are computed, not assumed.                               *)
(***************************************************************************)
EXTENDS Integers, Sequences, FiniteSets, TLC

\* ------------------------------------------------------------------ bounds

\* Persons (employees plus dependents) in an input of the calculation.
MaxCalcPersons == 4
\* Ids crypto.randomUUID() hands out in one behaviour.
MaxIds == 2
\* Persons (employees plus dependents) in the document, and dependents in
\* the dependents array of a request body.
MaxPersons == 4
MaxBodyDependents == 1
\* SpecCalcLarge: lists of up to MaxLargeEmployees employees, each with the
\* same number of dependents, up to MaxLargeDependents.
MaxLargeDependents == 16
MaxLargeEmployees == 6
MaxUserEvents == 3
MaxFetchFailures == 1
MaxOtherRequests == 1
MaxInlineDependents == 3

\* ------------------------------------------------------- program constants

EMPLOYEE_YEARLY_COST == 1000
DEPENDENT_YEARLY_COST == 500
\* DISCOUNT_PERCENTAGE is 0.10: the percentage, over DISCOUNT_PERCENTAGE_DEN.
DISCOUNT_PERCENTAGE_NUM == 10
DISCOUNT_PERCENTAGE_DEN == 100
PAYCHECKS_PER_YEAR == 26
PAYCHECK_AMOUNT == 2000
DISCOUNT_NAME_STARTS_WITH == <<"A">>

\* ---------------------------------------------------------------- numbers

Abs(n) == IF n < 0 THEN -n ELSE n

RECURSIVE GCD(_, _)
GCD(a, b) == IF b = 0 THEN a ELSE GCD(b, a % b)

\* The rational n/d (d > 0) in lowest terms.
Rat(n, d) ==
    LET g == GCD(Abs(n), d)
    IN  [num |-> n \div g, den |-> d \div g]

Num(n) == Rat(n, 1)
RatAdd(a, b) == Rat(a.num * b.den + b.num * a.den, a.den * b.den)
RatSub(a, b) == Rat(a.num * b.den - b.num * a.den, a.den * b.den)
RatMul(a, b) == Rat(a.num * b.num, a.den * b.den)
\* A division that drops the fraction.
RatDiv_Truncating(a, n) == Num((a.num \div a.den) \div n)
RatDiv(a, n) == Rat(a.num, a.den * n)
RatNonNeg(a) == a.num >= 0

DISCOUNT_PERCENTAGE == Rat(DISCOUNT_PERCENTAGE_NUM, DISCOUNT_PERCENTAGE_DEN)

\* ---------------------------------------------------------------- strings

LowerChar(c) ==
    CASE c = "A" -> "a"
      [] c = "B" -> "b"
      [] c = "L" -> "l"
      [] c = "O" -> "o"
      [] OTHER -> c

toLowerCase(s) == [i \in 1..Len(s) |-> LowerChar(s[i])]

startsWith(s, prefix) ==
    /\ Len(s) >= Len(prefix)
    /\ SubSeq(s, 1, Len(prefix)) = prefix

\* First names of the model: upper-case A, lower-case a, an a that is not
\* the first letter.
FirstNames == {<<"A", "l">>, <<"a", "l">>, <<"B", "a">>}
LastNames == {<<"D", "o", "e">>}
\* First names in the bodies of requests to the store.
RequestFirstNames == {<<"A", "l">>, <<"B", "a">>}

\* ------------------------------------------------------------ calculation

\* A discount test that every name passes.
StoreQualifies_Always(firstName) == TRUE

\* employeeStore.ts: the discount test lower-cases the name and the letter.
StoreQualifies(firstName) ==
    startsWith(toLowerCase(firstName), toLowerCase(DISCOUNT_NAME_STARTS_WITH))

StoreDependentDiscountStep(total, dependent) ==
    RatAdd(total,
           IF StoreQualifies(dependent.firstName)
           THEN RatMul(Num(DEPENDENT_YEARLY_COST), DISCOUNT_PERCENTAGE)
           ELSE Num(0))

\* employee.dependents.reduce(..., 0): left to right from element i.
RECURSIVE StoreDependentDiscount(_, _, _)
StoreDependentDiscount(dependents, i, total) ==
    IF i > Len(dependents) THEN total
    ELSE StoreDependentDiscount(dependents, i + 1,
                                StoreDependentDiscountStep(total, dependents[i]))

\* Mutant: the discount is not subtracted.
StoreTotalCost_NoDiscount(employeeCost, dependentCost, totalDiscount) ==
    RatAdd(employeeCost, dependentCost)

\* const totalCost = employeeCost + dependentCost - totalDiscount
StoreTotalCost(employeeCost, dependentCost, totalDiscount) ==
    RatSub(RatAdd(employeeCost, dependentCost), totalDiscount)

calculateBenefits(employee) ==
    LET employeeCost == Num(EMPLOYEE_YEARLY_COST)
        dependentCost == Num(Len(employee.dependents) * DEPENDENT_YEARLY_COST)
        employeeDiscount ==
            IF StoreQualifies(employee.firstName)
            THEN RatMul(employeeCost, DISCOUNT_PERCENTAGE)
            ELSE Num(0)
        dependentDiscount ==
            StoreDependentDiscount(employee.dependents, 1, Num(0))
        totalDiscount == RatAdd(employeeDiscount, dependentDiscount)
        totalCost == StoreTotalCost(employeeCost, dependentCost, totalDiscount)
        perPaycheck == RatDiv(totalCost, PAYCHECKS_PER_YEAR)
    IN  [employeeCost |-> employeeCost,
         dependentCost |-> dependentCost,
         discount |-> totalDiscount,
         totalCost |-> totalCost,
         perPaycheck |-> perPaycheck,
         perYear |-> totalCost,
         paycheckAfterDeductions |-> RatSub(Num(PAYCHECK_AMOUNT), perPaycheck),
         paycheckBeforeDeductions |-> Num(PAYCHECK_AMOUNT)]

\* benefitsService.ts: the discount test is case-sensitive.
ServiceQualifies(firstName) == startsWith(firstName, DISCOUNT_NAME_STARTS_WITH)

ServiceDependentDiscountStep(total, dependent) ==
    RatAdd(total,
           IF ServiceQualifies(dependent.firstName)
           THEN RatMul(Num(DEPENDENT_YEARLY_COST), DISCOUNT_PERCENTAGE)
           ELSE Num(0))

RECURSIVE ServiceDependentDiscount(_, _, _)
ServiceDependentDiscount(dependents, i, total) ==
    IF i > Len(dependents) THEN total
    ELSE ServiceDependentDiscount(dependents, i + 1,
                                  ServiceDependentDiscountStep(total, dependents[i]))

serviceCalculateBenefits(employee) ==
    LET employeeCost == Num(EMPLOYEE_YEARLY_COST)
        dependentCost == Num(Len(employee.dependents) * DEPENDENT_YEARLY_COST)
        employeeDiscount ==
            IF ServiceQualifies(employee.firstName)
            THEN RatMul(employeeCost, DISCOUNT_PERCENTAGE)
            ELSE Num(0)
        dependentDiscount ==
            ServiceDependentDiscount(employee.dependents, 1, Num(0))
        totalDiscount == RatAdd(employeeDiscount, dependentDiscount)
        totalCost == RatSub(RatAdd(employeeCost, dependentCost), totalDiscount)
    IN  [employeeCost |-> employeeCost,
         dependentCost |-> dependentCost,
         discount |-> totalDiscount,
         totalCost |-> totalCost,
         perPaycheck |-> RatDiv(totalCost, PAYCHECKS_PER_YEAR),
         perYear |-> totalCost]

\* Mutant: the reducer keeps the current discount and drops the accumulated one.
StoreTotalStep_DropsAcc(acc, curr) ==
    [employeeCost |-> RatAdd(acc.employeeCost, curr.employeeCost),
     dependentCost |-> RatAdd(acc.dependentCost, curr.dependentCost),
     discount |-> curr.discount,
     totalCost |-> RatAdd(acc.totalCost, curr.totalCost),
     perPaycheck |-> RatAdd(acc.perPaycheck, curr.perPaycheck),
     perYear |-> RatAdd(acc.perYear, curr.perYear),
     paycheckAfterDeductions |->
         RatSub(Num(PAYCHECK_AMOUNT), RatAdd(acc.perPaycheck, curr.perPaycheck)),
     paycheckBeforeDeductions |-> Num(PAYCHECK_AMOUNT)]

\* employeeStore.ts calculateTotalBenefits: the reducer and its seed.
StoreTotalStep(acc, curr) ==
    [employeeCost |-> RatAdd(acc.employeeCost, curr.employeeCost),
     dependentCost |-> RatAdd(acc.dependentCost, curr.dependentCost),
     discount |-> RatAdd(acc.discount, curr.discount),
     totalCost |-> RatAdd(acc.totalCost, curr.totalCost),
     perPaycheck |-> RatAdd(acc.perPaycheck, curr.perPaycheck),
     perYear |-> RatAdd(acc.perYear, curr.perYear),
     paycheckAfterDeductions |->
         RatSub(Num(PAYCHECK_AMOUNT), RatAdd(acc.perPaycheck, curr.perPaycheck)),
     paycheckBeforeDeductions |-> Num(PAYCHECK_AMOUNT)]

StoreTotalSeed ==
    [employeeCost |-> Num(0),
     dependentCost |-> Num(0),
     discount |-> Num(0),
     totalCost |-> Num(0),
     perPaycheck |-> Num(0),
     perYear |-> Num(0),
     paycheckAfterDeductions |-> Num(PAYCHECK_AMOUNT),
     paycheckBeforeDeductions |-> Num(PAYCHECK_AMOUNT)]

\* all.reduce(..., seed): left to right from element i.
RECURSIVE StoreTotalReduce(_, _, _)
StoreTotalReduce(all, i, acc) ==
    IF i > Len(all) THEN acc
    ELSE StoreTotalReduce(all, i + 1, StoreTotalStep(acc, all[i]))

\* employees.map(calculateBenefits).reduce(...)
calculateTotalBenefits(employees) ==
    LET all == [i \in 1..Len(employees) |-> calculateBenefits(employees[i])]
    IN  StoreTotalReduce(all, 1, StoreTotalSeed)

\* benefitsService.ts calculateTotalBenefits: six fields only.
ServiceTotalStep(total, employee) ==
    LET employeeCalc == serviceCalculateBenefits(employee)
    IN  [employeeCost |-> RatAdd(total.employeeCost, employeeCalc.employeeCost),
         dependentCost |-> RatAdd(total.dependentCost, employeeCalc.dependentCost),
         discount |-> RatAdd(total.discount, employeeCalc.discount),
         totalCost |-> RatAdd(total.totalCost, employeeCalc.totalCost),
         perPaycheck |-> RatAdd(total.perPaycheck, employeeCalc.perPaycheck),
         perYear |-> RatAdd(total.perYear, employeeCalc.perYear)]

ServiceTotalSeed ==
    [employeeCost |-> Num(0),
     dependentCost |-> Num(0),
     discount |-> Num(0),
     totalCost |-> Num(0),
     perPaycheck |-> Num(0),
     perYear |-> Num(0)]

RECURSIVE ServiceTotalReduce(_, _, _)
ServiceTotalReduce(employees, i, total) ==
    IF i > Len(employees) THEN total
    ELSE ServiceTotalReduce(employees, i + 1, ServiceTotalStep(total, employees[i]))

serviceCalculateTotalBenefits(employees) ==
    ServiceTotalReduce(employees, 1, ServiceTotalSeed)

\* -------------------------------------------------- employeeStore.ts: CRUD

\* An optional value: a property a JSON body may or may not carry, and the
\* undefined a store function returns when it finds nothing.
Undefined == [present |-> FALSE]
Some(v) == [present |-> TRUE, value |-> v]

\* What a store function did: whether it called writeStore, the document it
\* wrote (the document read, when it wrote nothing) and what it returned.
NoWrite(employees, result) == [write |-> FALSE, doc |-> employees, result |-> result]
Write(employees, result) == [write |-> TRUE, doc |-> employees, result |-> result]

\* Array.prototype.findIndex on emp.id / dep.id: the first match, 0 for -1.
RECURSIVE findIndexFrom(_, _, _)
findIndexFrom(seq, id, i) ==
    IF i > Len(seq) THEN 0
    ELSE IF seq[i].id = id THEN i
    ELSE findIndexFrom(seq, id, i + 1)

findIndex(seq, id) == findIndexFrom(seq, id, 1)

\* A filter that hands the kept elements back in reverse order.
RECURSIVE filterOut_Reversed(_, _)
filterOut_Reversed(seq, id) ==
    IF seq = <<>> THEN <<>>
    ELSE IF Head(seq).id = id THEN filterOut_Reversed(Tail(seq), id)
    ELSE filterOut_Reversed(Tail(seq), id) \o <<Head(seq)>>

\* Array.prototype.filter(x => x.id !== id), order kept.
RECURSIVE filterOut(_, _)
filterOut(seq, id) ==
    IF seq = <<>> THEN <<>>
    ELSE IF Head(seq).id = id THEN filterOut(Tail(seq), id)
    ELSE <<Head(seq)>> \o filterOut(Tail(seq), id)

\* A lookup that ignores the id and returns the first record.
getEmployeeById_First(employees, id) ==
    IF employees = <<>> THEN Undefined ELSE Some(employees[1])

\* getEmployeeById: employees.find(emp => emp.id === id)
getEmployeeById(employees, id) ==
    LET idx == findIndex(employees, id)
    IN  IF idx = 0 THEN Undefined ELSE Some(employees[idx])

\* { id: crypto.randomUUID(), type: 'employee', dependents: [], ...data }:
\* properties of data come last and win.
NewEmployee(data, uuid) ==
    [id |-> IF data.id.present THEN data.id.value ELSE uuid,
     type |-> "employee",
     dependents |-> IF data.dependents.present THEN data.dependents.value ELSE <<>>,
     firstName |-> data.firstName,
     lastName |-> data.lastName]

addEmployee(employees, data, uuid) ==
    LET newEmployee == NewEmployee(data, uuid)
    IN  Write(Append(employees, newEmployee), newEmployee)

\* An update that inserts the record when the id is not found.
updateEmployee_Upsert(employees, updated) ==
    LET idx == findIndex(employees, updated.id)
    IN  IF idx = 0 THEN Write(Append(employees, updated), Some(updated))
        ELSE Write([employees EXCEPT ![idx] = updated], Some(updated))

updateEmployee(employees, updated) ==
    LET idx == findIndex(employees, updated.id)
    IN  IF idx = 0 THEN NoWrite(employees, Undefined)
        ELSE Write([employees EXCEPT ![idx] = updated], Some(updated))

deleteEmployee(employees, id) ==
    LET before == Len(employees)
        newEmployees == filterOut(employees, id)
    IN  IF Len(newEmployees) < before
        THEN Write(newEmployees, TRUE)
        ELSE NoWrite(employees, FALSE)

\* { id: crypto.randomUUID(), type: 'dependent', ...data }
NewDependent(data, uuid) ==
    [id |-> IF data.id.present THEN data.id.value ELSE uuid,
     type |-> "dependent",
     firstName |-> data.firstName,
     lastName |-> data.lastName,
     employeeId |-> data.employeeId]

\* A create that puts the new dependent in front of the list.
addDependent_Prepend(employees, data, uuid) ==
    LET empIdx == findIndex(employees, data.employeeId)
        newDependent == NewDependent(data, uuid)
    IN  IF empIdx = 0 THEN NoWrite(employees, Undefined)
        ELSE Write([employees EXCEPT ![empIdx].dependents = <<newDependent>> \o @],
                   Some(newDependent))

addDependent(employees, data, uuid) ==
    LET empIdx == findIndex(employees, data.employeeId)
        newDependent == NewDependent(data, uuid)
    IN  IF empIdx = 0 THEN NoWrite(employees, Undefined)
        ELSE Write([employees EXCEPT ![empIdx].dependents = Append(@, newDependent)],
                   Some(newDependent))

updateDependent(employees, dep) ==
    LET empIdx == findIndex(employees, dep.employeeId)
        depIdx == IF empIdx = 0 THEN 0
                  ELSE findIndex(employees[empIdx].dependents, dep.id)
    IN  IF empIdx = 0 THEN NoWrite(employees, Undefined)
        ELSE IF depIdx = 0 THEN NoWrite(employees, Undefined)
        ELSE Write([employees EXCEPT ![empIdx].dependents =
                        SubSeq(@, 1, depIdx - 1) \o <<dep>>
                            \o SubSeq(@, depIdx + 1, Len(@))],
                   Some(dep))

\* A deleteDependent that filters the dependent id out of every employee's
\* list.
deleteDependent_Everywhere(employees, employeeId, dependentId) ==
    LET empIdx == findIndex(employees, employeeId)
        before == Len(employees[empIdx].dependents)
        filtered == [i \in 1..Len(employees) |->
                        [employees[i] EXCEPT !.dependents = filterOut(@, dependentId)]]
    IN  IF empIdx = 0 THEN NoWrite(employees, FALSE)
        ELSE IF Len(filtered[empIdx].dependents) < before
        THEN Write(filtered, TRUE)
        ELSE NoWrite(employees, FALSE)

deleteDependent(employees, employeeId, dependentId) ==
    LET empIdx == findIndex(employees, employeeId)
        before == Len(employees[empIdx].dependents)
        filtered == [employees EXCEPT ![empIdx].dependents = filterOut(@, dependentId)]
    IN  IF empIdx = 0 THEN NoWrite(employees, FALSE)
        ELSE IF Len(filtered[empIdx].dependents) < before
        THEN Write(filtered, TRUE)
        ELSE NoWrite(employees, FALSE)

\* ------------------------------------------------ benefitsService: CRUD

\* ApiResponse: { data, status: 'success' } and { data, error, status: 'error' }.
ServiceSuccess(data) == [status |-> "success", data |-> data]
ServiceError(error) == [status |-> "error", error |-> error]

\* What a service function did: the employees array after it and its response.
Served(employees, response) == [employees |-> employees, resp |-> response]

serviceGetEmployees(employees) ==
    Served(employees, ServiceSuccess(employees))

serviceCreateEmployee(employees, request, uuid) ==
    LET newEmployee == NewEmployee(request, uuid)
    IN  Served(Append(employees, newEmployee), ServiceSuccess(newEmployee))

serviceUpdateEmployee(employees, employee) ==
    LET index == findIndex(employees, employee.id)
    IN  IF index = 0
        THEN Served(employees, ServiceError("Failed to update employee"))
        ELSE Served([employees EXCEPT ![index] = employee], ServiceSuccess(employee))

\* employees.filter(emp => emp.id !== id), then success in every case.
serviceDeleteEmployee(employees, id) ==
    Served(filterOut(employees, id), ServiceSuccess(Undefined))

serviceCreateDependent(employees, request, uuid) ==
    LET index == findIndex(employees, request.employeeId)
        newDependent == NewDependent(request, uuid)
    IN  IF index = 0
        THEN Served(employees, ServiceError("Failed to create dependent"))
        ELSE Served([employees EXCEPT ![index].dependents = Append(@, newDependent)],
                    ServiceSuccess(newDependent))

serviceUpdateDependent(employees, dependent) ==
    LET empIdx == findIndex(employees, dependent.employeeId)
        index == IF empIdx = 0 THEN 0
                 ELSE findIndex(employees[empIdx].dependents, dependent.id)
    IN  IF empIdx = 0 \/ index = 0
        THEN Served(employees, ServiceError("Failed to update dependent"))
        ELSE Served([employees EXCEPT ![empIdx].dependents =
                         SubSeq(@, 1, index - 1) \o <<dependent>>
                             \o SubSeq(@, index + 1, Len(@))],
                    ServiceSuccess(dependent))

\* The employee is looked up; its dependents are filtered, then success
\* whether or not the filter removed one.
serviceDeleteDependent(employees, employeeId, dependentId) ==
    LET empIdx == findIndex(employees, employeeId)
    IN  IF empIdx = 0
        THEN Served(employees, ServiceError("Failed to delete dependent"))
        ELSE Served([employees EXCEPT ![empIdx].dependents = filterOut(@, dependentId)],
                    ServiceSuccess(Undefined))

\* benefitsService.calculateBenefits(employeeId)
serviceCalculateBenefitsById(employees, employeeId) ==
    LET index == findIndex(employees, employeeId)
    IN  IF index = 0
        THEN Served(employees, ServiceError("Failed to calculate benefits"))
        ELSE Served(employees, ServiceSuccess(serviceCalculateBenefits(employees[index])))

\* benefitsService.calculateTotalBenefits()
serviceCalculateTotalBenefitsAll(employees) ==
    Served(employees, ServiceSuccess(serviceCalculateTotalBenefits(employees)))

\* --------------------------------- employeeStore.ts: the document file

\* Length of JSON.stringify(value, null, 2) of a string, and of a property
\* line "key": value at an indentation.
JsonString(str) == Len(str) + 2
JsonProperty(indent, key, valueLength) == indent + JsonString(key) + 2 + valueLength

\* Length of text pieces of these lengths joined by ",\n".
RECURSIVE JsonJoined(_)
JsonJoined(lengths) ==
    IF lengths = <<>> THEN 0
    ELSE Head(lengths) + (IF Len(lengths) > 1 THEN 2 ELSE 0) + JsonJoined(Tail(lengths))

\* An array at an indentation: "[]", or one item per line between brackets.
JsonArray(indent, itemLengths) ==
    IF itemLengths = <<>> THEN 2
    ELSE 1 + 1 + JsonJoined(itemLengths) + 1 + indent + 1

\* An object at an indentation: one property per line between braces.
JsonObject(indent, propertyLengths) ==
    indent + 1 + 1 + JsonJoined(propertyLengths) + 1 + indent + 1

\* Length of crypto.randomUUID() in quotes.
JsonUuid == JsonString(<<"x","x","x","x","x","x","x","x","-","x","x","x","x","-",
                         "x","x","x","x","-","x","x","x","x","-",
                         "x","x","x","x","x","x","x","x","x","x","x","x">>)

JsonDependent(indent, dependent) ==
    JsonObject(indent,
        <<JsonProperty(indent + 2, <<"i","d">>, JsonUuid),
          JsonProperty(indent + 2, <<"t","y","p","e">>, Len(dependent.type) + 2),
          JsonProperty(indent + 2, <<"f","i","r","s","t","N","a","m","e">>,
                       JsonString(dependent.firstName)),
          JsonProperty(indent + 2, <<"l","a","s","t","N","a","m","e">>,
                       JsonString(dependent.lastName)),
          JsonProperty(indent + 2, <<"e","m","p","l","o","y","e","e","I","d">>, JsonUuid)>>)

JsonEmployee(indent, employee) ==
    JsonObject(indent,
        <<JsonProperty(indent + 2, <<"i","d">>, JsonUuid),
          JsonProperty(indent + 2, <<"t","y","p","e">>, Len(employee.type) + 2),
          JsonProperty(indent + 2, <<"d","e","p","e","n","d","e","n","t","s">>,
                       JsonArray(indent + 2,
                                 [j \in 1..Len(employee.dependents) |->
                                      JsonDependent(indent + 4, employee.dependents[j])])),
          JsonProperty(indent + 2, <<"f","i","r","s","t","N","a","m","e">>,
                       JsonString(employee.firstName)),
          JsonProperty(indent + 2, <<"l","a","s","t","N","a","m","e">>,
                       JsonString(employee.lastName))>>)

\* Length of JSON.stringify(employees, null, 2).
JsonLength(employees) ==
    JsonArray(0, [i \in 1..Len(employees) |-> JsonEmployee(2, employees[i])])

\* The file data/employees.json: whether it exists, whether its text is
\* JSON, the document the text stands for, and the length of the text.
MissingFile == [exists |-> FALSE, parses |-> FALSE, doc |-> <<>>, len |-> 0]
Text(employees) ==
    [exists |-> TRUE, parses |-> TRUE, doc |-> employees, len |-> JsonLength(employees)]
Malformed(len) == [exists |-> TRUE, parses |-> FALSE, doc |-> <<>>, len |-> len]

\* A read that hands out a placeholder record when the file cannot be read.
readStore_Placeholder(f) ==
    IF f.exists /\ f.parses THEN f.doc
    ELSE <<[id |-> 1, type |-> "employee", dependents |-> <<>>,
            firstName |-> <<>>, lastName |-> <<>>]>>

\* readStore: JSON.parse(readFile(DB_FILE)); [] when either throws.
readStore(f) == IF f.exists /\ f.parses THEN f.doc ELSE <<>>

\* fs.writeFile(DB_FILE, text) opens the file with flag 'w', which creates or
\* empties it, and then writes the text from the start of the file.
OpenForWrite(f) == Malformed(0)

\* The text lands on what the file holds by then: it replaces a text that is
\* not longer, and leaves the tail of a longer one behind it.
WriteText(f, employees) ==
    IF f.len <= JsonLength(employees) THEN Text(employees) ELSE Malformed(f.len)

\* ------------------------------------------------------------------ state

VARIABLES
    calcInput,   \* SpecCalc: the employee list the calculation is applied to
    calcOut,     \* SpecCalc: the last call of the calculation and its result
    store,       \* Spec: the persisted document data/employees.json (Employee[])
    nextId,      \* Spec: crypto.randomUUID(): the next id it returns
    resp,        \* Spec: the last request handled and its HTTP response
    employees,   \* SpecService: benefitsService's in-memory employees array
    serviceOut,  \* SpecService: the last service call and its response status
    file,        \* SpecFile: the file data/employees.json
    proc,        \* SpecFile: each caller's store call and how far it has run
    hist,        \* SpecFile: the file at the start and the last call to write it
    state,       \* SpecClient: the Redux state state.benefits
    thunks,      \* SpecClient: the async thunks in flight, by the flow that awaits them
    view,        \* SpecClient: EmployeeList is mounted; the modal form's state
    inline       \* SpecInline: the inline dependent edit of the Employee component

calcVars == <<calcInput, calcOut>>
storeVars == <<store, nextId, resp>>
serviceVars == <<employees, serviceOut>>
fileVars == <<file, proc, hist>>
clientVars == <<state, thunks, view, inline>>
vars == <<calcInput, calcOut, store, nextId, resp, employees, serviceOut,
          file, proc, hist, state, thunks, view, inline>>

NoCall == [fn |-> "none"]

\* The requests that may be running a store function at the same time.
Callers == {1, 2}

\* A caller that has not called yet.  A call runs readStore, computes and,
\* when it writes, runs writeStore's writeFile: open, then the text.
Idle ==
    [pc |-> "idle", call |-> NoCall, after |-> FALSE, failed |-> FALSE,
     clean |-> FALSE, snap |-> <<>>, uuid |-> 0, done |-> NoWrite(<<>>, Undefined),
     reads |-> 0, writes |-> 0]

NoHistory == [file0 |-> MissingFile, lastWriter |-> 0]

\* benefitsSlice.ts: initialState.  null is Undefined; employeeBenefits is the
\* empty object.
initialState ==
    [employees |-> <<>>, loading |-> FALSE, error |-> Undefined,
     selectedEmployeeId |-> Undefined, totalBenefits |-> Undefined,
     employeeBenefits |-> <<>>]

\* The flows of the page that dispatch thunks and await them: loadData of
\* EmployeeList, handleSubmit of the open form, the effect on the employee
\* list, and the click handlers of Employee, which do not await.
ThunkSlots == {"loadData", "form", "effect", "click"}

NoAnswer == [kind |-> "none"]
NoThunk == [type |-> "none", arg |-> 0, phase |-> "idle", response |-> NoAnswer]

\* EmployeeForm / DependentForm: useState of error and submitting, the show
\* prop, and which form it is (kind, employee id, dependent id).
FormClosed ==
    [kind |-> "none", id |-> 0, dependent |-> 0, show |-> FALSE,
     error |-> Undefined, submitting |-> FALSE]

\* Employee: the props showInlineDependentEdit and editingDependent and the
\* useState values of the inline edit.
InlineClosed ==
    [showInlineDependentEdit |-> FALSE, editingDependent |-> Undefined,
     showConfirmModal |-> FALSE, pendingEditDependent |-> Undefined,
     dependentInlineFirstName |-> <<>>, dependentInlineLastName |-> <<>>,
     showDependentForm |-> FALSE, dispatched |-> Undefined]

\* The page before it is mounted.
ClientInit ==
    /\ state = initialState
    /\ thunks = [slot \in ThunkSlots |-> NoThunk]
    /\ view = [mounted |-> FALSE, form |-> FormClosed, events |-> 0,
               failures |-> 0, others |-> 0]
    /\ inline = InlineClosed

\* ------------------------------------------ SpecCalc: the pure calculation

\* Employee lists for the calculation: every list of employees, each with any
\* list of dependents, of at most n persons in all.  Ids are positions.
CalcDependent(firstName) ==
    [id |-> 0, type |-> "dependent", firstName |-> firstName,
     lastName |-> <<"D", "o", "e">>, employeeId |-> 0]

CalcEmployee(firstName, dependents) ==
    [id |-> 0, type |-> "employee", firstName |-> firstName,
     lastName |-> <<"D", "o", "e">>, dependents |-> dependents]

RECURSIVE CalcInputs(_)
CalcInputs(n) ==
    IF n = 0 THEN {<<>>}
    ELSE LET smaller == CalcInputs(n - 1)
             grown ==
                 {Append(s, CalcEmployee(f, <<>>)) : s \in smaller, f \in FirstNames}
                 \cup
                 {[s EXCEPT ![Len(s)].dependents = Append(@, CalcDependent(f))] :
                      s \in {t \in smaller : t # <<>>}, f \in FirstNames}
         IN  smaller \cup grown

CalcInit ==
    /\ calcInput \in CalcInputs(MaxCalcPersons)
    /\ calcOut = NoCall
    /\ employees = <<>>
    /\ serviceOut = NoCall
    /\ file = MissingFile
    /\ proc = [p \in Callers |-> Idle]
    /\ hist = NoHistory
    /\ ClientInit
    /\ store = <<>>
    /\ nextId = 1
    /\ resp = [route |-> "none", status |-> 0]

CalcCalculateBenefits(i) ==
    /\ calcOut' = [fn |-> "calculateBenefits", impl |-> "employeeStore", arg |-> i,
                   value |-> calculateBenefits(calcInput[i])]
    /\ UNCHANGED <<calcInput, storeVars, serviceVars, fileVars, clientVars>>

CalcServiceCalculateBenefits(i) ==
    /\ calcOut' = [fn |-> "calculateBenefits", impl |-> "benefitsService", arg |-> i,
                   value |-> serviceCalculateBenefits(calcInput[i])]
    /\ UNCHANGED <<calcInput, storeVars, serviceVars, fileVars, clientVars>>

CalcCalculateTotalBenefits ==
    /\ calcOut' = [fn |-> "calculateTotalBenefits", impl |-> "employeeStore",
                   value |-> calculateTotalBenefits(calcInput)]
    /\ UNCHANGED <<calcInput, storeVars, serviceVars, fileVars, clientVars>>

CalcServiceCalculateTotalBenefits ==
    /\ calcOut' = [fn |-> "calculateTotalBenefits", impl |-> "benefitsService",
                   value |-> serviceCalculateTotalBenefits(calcInput)]
    /\ UNCHANGED <<calcInput, storeVars, serviceVars, fileVars, clientVars>>

CalcNext ==
    \/ \E i \in 1..Len(calcInput) : CalcCalculateBenefits(i)
    \/ \E i \in 1..Len(calcInput) : CalcServiceCalculateBenefits(i)
    \/ CalcCalculateTotalBenefits
    \/ CalcServiceCalculateTotalBenefits

SpecCalc == CalcInit /\ [][CalcNext]_vars

\* ---------------- SpecCalcLarge: the calculation on large households

\* Lists of employees that have the same number of dependents each; no first
\* name qualifies for the discount.
LargeEmployee(id, n) ==
    [id |-> id, type |-> "employee", firstName |-> <<"B", "a">>,
     lastName |-> <<"D", "o", "e">>,
     dependents |-> [j \in 1..n |-> CalcDependent(<<"B", "a">>)]]

LargeInputs ==
    {[i \in 1..n |-> LargeEmployee(i, d)] :
         n \in 0..MaxLargeEmployees, d \in 0..MaxLargeDependents}

CalcLargeInit ==
    /\ calcInput \in LargeInputs
    /\ calcOut = NoCall
    /\ employees = <<>>
    /\ serviceOut = NoCall
    /\ file = MissingFile
    /\ proc = [p \in Callers |-> Idle]
    /\ hist = NoHistory
    /\ ClientInit
    /\ store = <<>>
    /\ nextId = 1
    /\ resp = [route |-> "none", status |-> 0]

SpecCalcLarge == CalcLargeInit /\ [][CalcNext]_vars

\* ------------------------------ Spec: the route handlers over employeeStore

\* Ids a request may name in its path (params.id) or its body.  Ids not yet
\* handed out by randomUUID stand for ids no record has.
Ids == 1..MaxIds
\* Ids a client can put into a body to have them stored: ids it has seen.
IssuedIds == 1..(nextId - 1)

\* Dependent records a request body may carry.
BodyDependents ==
    [id : IssuedIds, type : {"dependent"}, firstName : RequestFirstNames,
     lastName : LastNames, employeeId : IssuedIds]

RECURSIVE SeqsUpTo(_, _)
SeqsUpTo(S, n) ==
    IF n = 0 THEN {<<>>}
    ELSE LET shorter == SeqsUpTo(S, n - 1)
         IN  shorter \cup {Append(q, x) : q \in {r \in shorter : Len(r) = n - 1}, x \in S}

BodyDependentLists == SeqsUpTo(BodyDependents, MaxBodyDependents)

\* Bodies of POST /api/employees: the names, and optionally the properties
\* id and dependents, which NewEmployee lets through.
CreateEmployeeBodies ==
    [firstName : RequestFirstNames, lastName : LastNames,
     id : {Undefined} \cup {Some(i) : i \in IssuedIds},
     dependents : {Undefined} \cup {Some(l) : l \in BodyDependentLists}]

\* Bodies of PUT /api/employees/[id]: an Employee; the route sets its id.
UpdateEmployeeBodies ==
    [type : {"employee"}, firstName : RequestFirstNames, lastName : LastNames,
     dependents : BodyDependentLists]

\* Bodies of POST and PUT /api/employees/[id]/dependents; the route sets
\* employeeId.
CreateDependentBodies ==
    [firstName : RequestFirstNames, lastName : LastNames,
     id : {Undefined} \cup {Some(i) : i \in IssuedIds}]

UpdateDependentBodies ==
    [id : Ids, type : {"dependent"}, firstName : RequestFirstNames,
     lastName : LastNames]

\* Bodies of DELETE /api/employees/[id]/dependents: { dependentId }, or a body
\* without it.
DeleteDependentBodies == {Undefined} \cup {Some(d) : d \in Ids}

\* NextResponse.json({ data, status: 'success' }) and
\* NextResponse.json({ error, status: 'error' }, { status }).
Ok(route, data) ==
    [route |-> route, status |-> 200, kind |-> "success", data |-> data]
Err(route, status, error) ==
    [route |-> route, status |-> status, kind |-> "error", error |-> error]

\* What a route handler did: the document after it and its response.
Handled(doc, response) == [doc |-> doc, resp |-> response]

\* The document after a store function: what it wrote, or the document as it
\* was.
After(doc, done) == IF done.write THEN done.doc ELSE doc

\* GET /api/employees
GetEmployeesHandler(doc) ==
    Handled(doc, Ok("GET /api/employees", doc))

\* POST /api/employees
PostEmployeeHandler(doc, body, uuid) ==
    LET done == addEmployee(doc, body, uuid)
    IN  Handled(After(doc, done), Ok("POST /api/employees", done.result))

\* GET /api/employees/[id]
GetEmployeeBenefitsHandler(doc, id) ==
    LET employee == getEmployeeById(doc, id)
    IN  Handled(doc,
                IF ~employee.present
                THEN Err("GET /api/employees/[id]", 404, "Employee not found")
                ELSE Ok("GET /api/employees/[id]", calculateBenefits(employee.value)))

\* PUT /api/employees/[id]: updateEmployee({ ...body, id: params.id })
PutEmployeeHandler(doc, id, body) ==
    LET updated == [id |-> id, type |-> body.type, firstName |-> body.firstName,
                    lastName |-> body.lastName, dependents |-> body.dependents]
        done == updateEmployee(doc, updated)
    IN  Handled(After(doc, done),
                IF ~done.result.present
                THEN Err("PUT /api/employees/[id]", 404, "Employee not found")
                ELSE Ok("PUT /api/employees/[id]", done.result.value))

\* DELETE /api/employees/[id]
DeleteEmployeeHandler(doc, id) ==
    LET done == deleteEmployee(doc, id)
    IN  Handled(After(doc, done),
                IF ~done.result
                THEN Err("DELETE /api/employees/[id]", 404, "Employee not found")
                ELSE Ok("DELETE /api/employees/[id]", Undefined))

\* POST /api/employees/[id]/dependents: addDependent({ ...body, employeeId })
PostDependentHandler(doc, id, body, uuid) ==
    LET data == [firstName |-> body.firstName, lastName |-> body.lastName,
                 id |-> body.id, employeeId |-> id]
        done == addDependent(doc, data, uuid)
    IN  Handled(After(doc, done),
                IF ~done.result.present
                THEN Err("POST /api/employees/[id]/dependents", 404,
                         "Employee not found")
                ELSE Ok("POST /api/employees/[id]/dependents", done.result.value))

\* PUT /api/employees/[id]/dependents: updateDependent({ ...body, employeeId })
PutDependentHandler(doc, id, body) ==
    LET dep == [id |-> body.id, type |-> body.type, firstName |-> body.firstName,
                lastName |-> body.lastName, employeeId |-> id]
        done == updateDependent(doc, dep)
    IN  Handled(After(doc, done),
                IF ~done.result.present
                THEN Err("PUT /api/employees/[id]/dependents", 404,
                         "Employee or dependent not found")
                ELSE Ok("PUT /api/employees/[id]/dependents", done.result.value))

\* DELETE /api/employees/[id]/dependents with body { dependentId }; a body
\* without dependentId is answered 400 before the store is read.
DeleteDependentHandler(doc, id, body) ==
    IF ~body.present
    THEN Handled(doc, Err("DELETE /api/employees/[id]/dependents", 400,
                          "Dependent ID is required"))
    ELSE LET done == deleteDependent(doc, id, body.value)
         IN  Handled(After(doc, done),
                     IF ~done.result
                     THEN Err("DELETE /api/employees/[id]/dependents", 404,
                              "Employee or dependent not found")
                     ELSE Ok("DELETE /api/employees/[id]/dependents", Undefined))

\* A total that empties the document it summed.
GetTotalBenefitsHandler_Resets(doc) ==
    Handled(<<>>, Ok("GET /api/benefits/total", calculateTotalBenefits(doc)))

\* GET /api/benefits/total
GetTotalBenefitsHandler(doc) ==
    Handled(doc, Ok("GET /api/benefits/total", calculateTotalBenefits(doc)))

\* Number of persons in a document.
RECURSIVE Persons(_)
Persons(doc) ==
    IF doc = <<>> THEN 0
    ELSE 1 + Len(Head(doc).dependents) + Persons(Tail(doc))

NoResponse == [route |-> "none", status |-> 0]

Init ==
    /\ store = <<>>
    /\ nextId = 1
    /\ resp = NoResponse
    /\ calcInput = <<>>
    /\ calcOut = NoCall
    /\ employees = <<>>
    /\ serviceOut = NoCall
    /\ file = MissingFile
    /\ proc = [p \in Callers |-> Idle]
    /\ hist = NoHistory
    /\ ClientInit

\* One request: the handler runs on the document; the response's route and
\* HTTP status are kept.
Serve(h) ==
    /\ Persons(h.doc) <= MaxPersons
    /\ store' = h.doc
    /\ resp' = [route |-> h.resp.route, status |-> h.resp.status]

GetEmployees ==
    /\ Serve(GetEmployeesHandler(store))
    /\ UNCHANGED <<nextId, calcVars, serviceVars, fileVars, clientVars>>

PostEmployee(body) ==
    /\ nextId <= MaxIds
    /\ Serve(PostEmployeeHandler(store, body, nextId))
    /\ nextId' = nextId + 1
    /\ UNCHANGED <<calcVars, serviceVars, fileVars, clientVars>>

GetEmployeeBenefits(id) ==
    /\ Serve(GetEmployeeBenefitsHandler(store, id))
    /\ UNCHANGED <<nextId, calcVars, serviceVars, fileVars, clientVars>>

PutEmployee(id, body) ==
    /\ Serve(PutEmployeeHandler(store, id, body))
    /\ UNCHANGED <<nextId, calcVars, serviceVars, fileVars, clientVars>>

DeleteEmployee(id) ==
    /\ Serve(DeleteEmployeeHandler(store, id))
    /\ UNCHANGED <<nextId, calcVars, serviceVars, fileVars, clientVars>>

\* randomUUID is called only once the employee is found.
PostDependent(id, body) ==
    LET found == getEmployeeById(store, id).present
    IN  /\ found => nextId <= MaxIds
        /\ Serve(PostDependentHandler(store, id, body, nextId))
        /\ nextId' = IF found THEN nextId + 1 ELSE nextId
        /\ UNCHANGED <<calcVars, serviceVars, fileVars, clientVars>>

PutDependent(id, body) ==
    /\ Serve(PutDependentHandler(store, id, body))
    /\ UNCHANGED <<nextId, calcVars, serviceVars, fileVars, clientVars>>

DeleteDependent(id, body) ==
    /\ Serve(DeleteDependentHandler(store, id, body))
    /\ UNCHANGED <<nextId, calcVars, serviceVars, fileVars, clientVars>>

GetTotalBenefits ==
    /\ Serve(GetTotalBenefitsHandler(store))
    /\ UNCHANGED <<nextId, calcVars, serviceVars, fileVars, clientVars>>

Next ==
    \/ GetEmployees
    \/ \E body \in CreateEmployeeBodies : PostEmployee(body)
    \/ \E id \in Ids : GetEmployeeBenefits(id)
    \/ \E id \in Ids, body \in UpdateEmployeeBodies : PutEmployee(id, body)
    \/ \E id \in Ids : DeleteEmployee(id)
    \/ \E id \in Ids, body \in CreateDependentBodies : PostDependent(id, body)
    \/ \E id \in Ids, body \in UpdateDependentBodies : PutDependent(id, body)
    \/ \E id \in Ids, body \in DeleteDependentBodies : DeleteDependent(id, body)
    \/ GetTotalBenefits

Spec == Init /\ [][Next]_vars

\* --------------------------- SpecService: the calls of benefitsService

\* Employee records a caller passes to benefitsService.updateEmployee.
ServiceEmployees ==
    [id : Ids, type : {"employee"}, firstName : RequestFirstNames,
     lastName : LastNames, dependents : BodyDependentLists]

\* CreateDependentRequest, with the id property the spread lets through.
ServiceCreateDependentRequests ==
    [firstName : RequestFirstNames, lastName : LastNames, employeeId : Ids,
     id : {Undefined} \cup {Some(i) : i \in IssuedIds}]

\* Dependent records a caller passes to benefitsService.updateDependent.
ServiceDependents ==
    [id : Ids, type : {"dependent"}, firstName : RequestFirstNames,
     lastName : LastNames, employeeId : Ids]

\* One call: the function runs on the array; its name and the status of its
\* response are kept.
Call(fn, served) ==
    /\ Persons(served.employees) <= MaxPersons
    /\ employees' = served.employees
    /\ serviceOut' = [fn |-> fn, status |-> served.resp.status]

ServiceGetEmployees ==
    /\ Call("getEmployees", serviceGetEmployees(employees))
    /\ UNCHANGED <<calcVars, storeVars, fileVars, clientVars>>

ServiceCreateEmployee(request) ==
    /\ nextId <= MaxIds
    /\ Call("createEmployee", serviceCreateEmployee(employees, request, nextId))
    /\ nextId' = nextId + 1
    /\ UNCHANGED <<calcVars, store, resp, fileVars, clientVars>>

ServiceUpdateEmployee(employee) ==
    /\ Call("updateEmployee", serviceUpdateEmployee(employees, employee))
    /\ UNCHANGED <<calcVars, storeVars, fileVars, clientVars>>

ServiceDeleteEmployee(id) ==
    /\ Call("deleteEmployee", serviceDeleteEmployee(employees, id))
    /\ UNCHANGED <<calcVars, storeVars, fileVars, clientVars>>

\* randomUUID is called only once the employee is found.
ServiceCreateDependent(request) ==
    LET found == findIndex(employees, request.employeeId) # 0
    IN  /\ found => nextId <= MaxIds
        /\ Call("createDependent", serviceCreateDependent(employees, request, nextId))
        /\ nextId' = IF found THEN nextId + 1 ELSE nextId
        /\ UNCHANGED <<calcVars, store, resp, fileVars, clientVars>>

ServiceUpdateDependent(dependent) ==
    /\ Call("updateDependent", serviceUpdateDependent(employees, dependent))
    /\ UNCHANGED <<calcVars, storeVars, fileVars, clientVars>>

ServiceDeleteDependent(employeeId, dependentId) ==
    /\ Call("deleteDependent", serviceDeleteDependent(employees, employeeId, dependentId))
    /\ UNCHANGED <<calcVars, storeVars, fileVars, clientVars>>

ServiceCalculateBenefits(employeeId) ==
    /\ Call("calculateBenefits", serviceCalculateBenefitsById(employees, employeeId))
    /\ UNCHANGED <<calcVars, storeVars, fileVars, clientVars>>

ServiceCalculateTotalBenefits ==
    /\ Call("calculateTotalBenefits", serviceCalculateTotalBenefitsAll(employees))
    /\ UNCHANGED <<calcVars, storeVars, fileVars, clientVars>>

ServiceNext ==
    \/ ServiceGetEmployees
    \/ \E request \in CreateEmployeeBodies : ServiceCreateEmployee(request)
    \/ \E employee \in ServiceEmployees : ServiceUpdateEmployee(employee)
    \/ \E id \in Ids : ServiceDeleteEmployee(id)
    \/ \E request \in ServiceCreateDependentRequests : ServiceCreateDependent(request)
    \/ \E dependent \in ServiceDependents : ServiceUpdateDependent(dependent)
    \/ \E employeeId \in Ids, dependentId \in Ids :
           ServiceDeleteDependent(employeeId, dependentId)
    \/ \E employeeId \in Ids : ServiceCalculateBenefits(employeeId)
    \/ ServiceCalculateTotalBenefits

SpecService == Init /\ [][ServiceNext]_vars

\* ------------------- SpecFile: store calls that overlap on the file

Ba == <<"B", "a">>
Al == <<"A", "l">>

\* Documents the file may hold when the calls start.
FileEmployee(id, dependents) ==
    [id |-> id, type |-> "employee", dependents |-> dependents,
     firstName |-> Ba, lastName |-> <<"D", "o", "e">>]
FileDependent(id, employeeId) ==
    [id |-> id, type |-> "dependent", firstName |-> Ba,
     lastName |-> <<"D", "o", "e">>, employeeId |-> employeeId]
FileDocs ==
    {<<>>,
     <<FileEmployee(1, <<>>)>>,
     <<FileEmployee(1, <<FileDependent(2, 1)>>)>>,
     <<FileEmployee(1, <<>>), FileEmployee(2, <<>>)>>,
     <<FileEmployee(1, <<>>), FileEmployee(2, <<>>), FileEmployee(MaxIds + 1, <<>>)>>,
     <<FileEmployee(2, <<FileDependent(1, 2), FileDependent(2, 2),
                         FileDependent(MaxIds + 1, 2)>>)>>}

\* The calls of the store's exported functions, with their arguments.
FileCalls ==
    {[fn |-> "getAllEmployees"], [fn |-> "calculateTotalBenefits"]}
    \cup {[fn |-> "getEmployeeById", id |-> id] : id \in Ids}
    \cup {[fn |-> "addEmployee", data |-> data] :
              data \in [firstName : {Ba}, lastName : LastNames,
                        id : {Undefined}, dependents : {Undefined}]}
    \cup {[fn |-> "updateEmployee", updated |-> updated] :
              updated \in [id : Ids, type : {"employee"}, firstName : {Al},
                           lastName : LastNames, dependents : {<<>>}]}
    \cup {[fn |-> "deleteEmployee", id |-> id] : id \in Ids}
    \cup {[fn |-> "addDependent", data |-> data] :
              data \in [firstName : {Ba}, lastName : LastNames,
                        employeeId : Ids, id : {Undefined}]}
    \cup {[fn |-> "updateDependent", dep |-> dep] :
              dep \in [id : Ids, type : {"dependent"}, firstName : {Al},
                       lastName : LastNames, employeeId : Ids]}
    \cup {[fn |-> "deleteDependent", employeeId |-> e, dependentId |-> d] :
              e \in Ids, d \in Ids}

ReadFns == {"getAllEmployees", "getEmployeeById", "calculateTotalBenefits"}

\* A store function from the document it read to its return: what it
\* writes, if it writes, and what it returns.
StoreCall(call, doc, uuid) ==
    CASE call.fn = "getAllEmployees" -> NoWrite(doc, doc)
      [] call.fn = "getEmployeeById" -> NoWrite(doc, getEmployeeById(doc, call.id))
      [] call.fn = "calculateTotalBenefits" -> NoWrite(doc, calculateTotalBenefits(doc))
      [] call.fn = "addEmployee" -> addEmployee(doc, call.data, uuid)
      [] call.fn = "updateEmployee" -> updateEmployee(doc, call.updated)
      [] call.fn = "deleteEmployee" -> deleteEmployee(doc, call.id)
      [] call.fn = "addDependent" -> addDependent(doc, call.data, uuid)
      [] call.fn = "updateDependent" -> updateDependent(doc, call.dep)
      [] call.fn = "deleteDependent" ->
             deleteDependent(doc, call.employeeId, call.dependentId)

\* Whether the function called crypto.randomUUID().
CallsRandomUUID(call, doc) ==
    \/ call.fn = "addEmployee"
    \/ call.fn = "addDependent" /\ getEmployeeById(doc, call.data.employeeId).present

\* Whether a mutating function returned its success value.
Succeeded(call, result) ==
    CASE call.fn = "addEmployee" -> TRUE
      [] call.fn \in {"updateEmployee", "addDependent", "updateDependent"} ->
             result.present
      [] call.fn \in {"deleteEmployee", "deleteDependent"} -> result
      [] OTHER -> TRUE

HasWritten(p) == proc[p].pc = "returned" /\ proc[p].done.write

FileInit ==
    /\ file \in {MissingFile} \cup {Text(doc) : doc \in FileDocs}
    /\ proc = [p \in Callers |-> Idle]
    /\ hist = [file0 |-> file, lastWriter |-> 0]
    /\ ClientInit
    /\ nextId = MaxIds + 2
    /\ store = <<>>
    /\ resp = NoResponse
    /\ calcInput = <<>>
    /\ calcOut = NoCall
    /\ employees = <<>>
    /\ serviceOut = NoCall

\* A request calls a store function.
Invoke(p, call) ==
    /\ proc[p].pc = "idle"
    /\ proc' = [proc EXCEPT ![p] =
                   [@ EXCEPT !.pc = "readStore", !.call = call,
                             !.after = \A q \in Callers \ {p} :
                                           proc[q].pc = "returned"]]
    /\ UNCHANGED <<file, hist, nextId, store, resp, calcVars, serviceVars, clientVars>>

\* await readStore(), and the function's code up to its return or up to
\* await writeStore(...).
ReadStore(p) ==
    /\ proc[p].pc = "readStore"
    /\ LET doc == readStore(file)
           done == StoreCall(proc[p].call, doc, nextId)
       IN  /\ proc' = [proc EXCEPT ![p] =
                          [@ EXCEPT !.pc = IF done.write THEN "writeOpen" ELSE "returned",
                                    !.failed = ~(file.exists /\ file.parses),
                                    !.clean = \A q \in Callers \ {p} :
                                                  /\ proc[q].pc # "writeData"
                                                  /\ ~HasWritten(q),
                                    !.snap = doc,
                                    !.uuid = nextId,
                                    !.done = done,
                                    !.reads = @ + 1]]
           /\ nextId' = IF CallsRandomUUID(proc[p].call, doc) THEN nextId + 1 ELSE nextId
    /\ UNCHANGED <<file, hist, store, resp, calcVars, serviceVars, clientVars>>

\* writeStore: fs.writeFile opens the file.
WriteOpen(p) ==
    /\ proc[p].pc = "writeOpen"
    /\ file' = OpenForWrite(file)
    /\ proc' = [proc EXCEPT ![p] = [@ EXCEPT !.pc = "writeData", !.writes = @ + 1]]
    /\ UNCHANGED <<hist, nextId, store, resp, calcVars, serviceVars, clientVars>>

\* writeStore: fs.writeFile writes the text; the function returns.
WriteData(p) ==
    /\ proc[p].pc = "writeData"
    /\ file' = WriteText(file, proc[p].done.doc)
    /\ proc' = [proc EXCEPT ![p] = [@ EXCEPT !.pc = "returned"]]
    /\ hist' = [hist EXCEPT !.lastWriter = p]
    /\ UNCHANGED <<nextId, store, resp, calcVars, serviceVars, clientVars>>

FileNext ==
    \/ \E p \in Callers, call \in FileCalls : Invoke(p, call)
    \/ \E p \in Callers : ReadStore(p)
    \/ \E p \in Callers : WriteOpen(p)
    \/ \E p \in Callers : WriteData(p)

SpecFile == FileInit /\ [][FileNext]_vars

\* ------------------------------------------------------ benefitsSlice

\* String.prototype.trim, for the blank as the only white space.
RECURSIVE trimStart(_)
trimStart(s) == IF s # <<>> /\ Head(s) = " " THEN trimStart(Tail(s)) ELSE s

RECURSIVE trimEnd(_)
trimEnd(s) ==
    IF s # <<>> /\ s[Len(s)] = " " THEN trimEnd(SubSeq(s, 1, Len(s) - 1)) ELSE s

trim(s) == trimEnd(trimStart(s))

\* reducers
setLoading(s, payload) == [s EXCEPT !.loading = payload]
setError(s, payload) == [s EXCEPT !.error = payload]

\* extraReducers, case by case.
fetchEmployeesPending(s) == [s EXCEPT !.loading = TRUE, !.error = Undefined]

fetchEmployeesFulfilled(s, payload) ==
    [s EXCEPT !.employees = payload, !.loading = FALSE]

\* action.payload is undefined when the thunk threw instead of returning
\* rejectWithValue.
fetchEmployeesRejected(s, payload) == [s EXCEPT !.loading = FALSE, !.error = payload]

addEmployeeFulfilled(s, payload) == [s EXCEPT !.employees = Append(@, payload)]

updateEmployeeFulfilled(s, payload) ==
    LET idx == findIndex(s.employees, payload.id)
    IN  IF idx # 0 THEN [s EXCEPT !.employees[idx] = payload] ELSE s

deleteEmployeeFulfilled(s, payload) ==
    [s EXCEPT !.employees = filterOut(@, payload)]

addDependentFulfilled(s, payload) ==
    LET emp == findIndex(s.employees, payload.employeeId)
    IN  IF emp # 0
        THEN [s EXCEPT !.employees[emp].dependents = Append(@, payload)]
        ELSE s

updateDependentFulfilled(s, payload) ==
    LET emp == findIndex(s.employees, payload.employeeId)
        idx == IF emp = 0 THEN 0
               ELSE findIndex(s.employees[emp].dependents, payload.id)
    IN  IF emp # 0 /\ idx # 0
        THEN [s EXCEPT !.employees[emp].dependents[idx] = payload]
        ELSE s

deleteDependentFulfilled(s, payload) ==
    LET emp == findIndex(s.employees, payload.employeeId)
    IN  IF emp # 0
        THEN [s EXCEPT !.employees[emp].dependents =
                           filterOut(@, payload.dependentId)]
        ELSE s

fetchTotalBenefitsFulfilled(s, payload) == [s EXCEPT !.totalBenefits = Some(payload)]

\* state.employeeBenefits = {}, then one assignment per entry of the payload:
\* of two entries with one id the later stays.
fetchEmployeeBenefitsFulfilled(s, payload) ==
    LET ids == {payload[i].id : i \in 1..Len(payload)}
        last(id) == CHOOSE i \in 1..Len(payload) :
                        /\ payload[i].id = id
                        /\ \A k \in (i + 1)..Len(payload) : payload[k].id # id
    IN  [s EXCEPT !.employeeBenefits = [id \in ids |-> payload[last(id)].benefits]]

\* The slice reducer on a thunk's lifecycle action
\* (action.type = 'benefits/<type>/<requestStatus>'); an action without a
\* case leaves the state as it is.
benefitsReducer(s, action) ==
    LET is(type, requestStatus) ==
            action.type = type /\ action.requestStatus = requestStatus
    IN  CASE is("fetchEmployees", "pending") -> fetchEmployeesPending(s)
          [] is("fetchEmployees", "fulfilled") ->
                 fetchEmployeesFulfilled(s, action.payload)
          [] is("fetchEmployees", "rejected") ->
                 fetchEmployeesRejected(s, action.payload)
          [] is("addEmployee", "fulfilled") -> addEmployeeFulfilled(s, action.payload)
          [] is("updateEmployee", "fulfilled") ->
                 updateEmployeeFulfilled(s, action.payload)
          [] is("deleteEmployee", "fulfilled") ->
                 deleteEmployeeFulfilled(s, action.payload)
          [] is("addDependent", "fulfilled") ->
                 addDependentFulfilled(s, action.payload)
          [] is("updateDependent", "fulfilled") ->
                 updateDependentFulfilled(s, action.payload)
          [] is("deleteDependent", "fulfilled") ->
                 deleteDependentFulfilled(s, action.payload)
          [] is("fetchTotalBenefits", "fulfilled") ->
                 fetchTotalBenefitsFulfilled(s, action.payload)
          [] is("fetchEmployeeBenefits", "fulfilled") ->
                 fetchEmployeeBenefitsFulfilled(s, action.payload)
          [] OTHER -> s

\* The reducer assigns a new array or a changed record to state.employees,
\* so the employees selected by EmployeeList are a new reference.
ReplacesEmployees(s, action) ==
    /\ action.requestStatus = "fulfilled"
    /\ \/ action.type \in {"fetchEmployees", "addEmployee", "deleteEmployee"}
       \/ /\ action.type = "updateEmployee"
          /\ findIndex(s.employees, action.payload.id) # 0
       \/ /\ action.type \in {"addDependent", "deleteDependent"}
          /\ findIndex(s.employees, action.payload.employeeId) # 0
       \/ /\ action.type = "updateDependent"
          /\ LET emp == findIndex(s.employees, action.payload.employeeId)
             IN  /\ emp # 0
                 /\ findIndex(s.employees[emp].dependents, action.payload.id) # 0

\* ----------------------------------------------------------- the thunks

ThunkTypes ==
    {"fetchEmployees", "addEmployee", "updateEmployee", "deleteEmployee",
     "addDependent", "updateDependent", "deleteDependent", "fetchTotalBenefits",
     "fetchEmployeeBenefits"}

\* A dispatched thunk whose request the server has not handled yet.
Thunk(type, arg) ==
    [type |-> type, arg |-> arg, phase |-> "sent", response |-> NoAnswer]

\* fetchEmployeeBenefits(employees): one GET per employee; the answers so far.
BenefitsThunk(list) ==
    [type |-> "fetchEmployeeBenefits",
     arg |-> [i \in 1..Len(list) |-> list[i].id],
     phase |-> "sent",
     response |-> [kind |-> "partial", data |-> <<>>]]

\* fetch() or res.json() threw: no response body.
Threw == [kind |-> "threw", message |-> "Failed to fetch"]

Pending(type) == [type |-> type, requestStatus |-> "pending", payload |-> Undefined]

Fulfilled(type, payload) ==
    [type |-> type, requestStatus |-> "fulfilled", payload |-> payload]

\* rejectWithValue(value): the value is the payload.
RejectedWithValue(type, value) ==
    [type |-> type, requestStatus |-> "rejected", payload |-> Some(value),
     error |-> "Rejected"]

\* The payload creator threw: no payload, the error's message in action.error.
Rejected(type, message) ==
    [type |-> type, requestStatus |-> "rejected", payload |-> Undefined,
     error |-> message]

\* The request of a thunk, handled by its route on the document.
Request(doc, thunk, uuid) ==
    CASE thunk.type = "fetchEmployees" -> GetEmployeesHandler(doc)
      [] thunk.type = "addEmployee" ->
             PostEmployeeHandler(doc,
                 [firstName |-> thunk.arg.firstName, lastName |-> thunk.arg.lastName,
                  id |-> Undefined, dependents |-> Undefined], uuid)
      [] thunk.type = "updateEmployee" -> PutEmployeeHandler(doc, thunk.arg.id, thunk.arg)
      [] thunk.type = "deleteEmployee" -> DeleteEmployeeHandler(doc, thunk.arg)
      [] thunk.type = "addDependent" ->
             PostDependentHandler(doc, thunk.arg.employeeId,
                 [firstName |-> thunk.arg.firstName, lastName |-> thunk.arg.lastName,
                  id |-> Undefined], uuid)
      [] thunk.type = "updateDependent" ->
             PutDependentHandler(doc, thunk.arg.employeeId, thunk.arg)
      [] thunk.type = "deleteDependent" ->
             DeleteDependentHandler(doc, thunk.arg.employeeId,
                                    Some(thunk.arg.dependentId))
      [] thunk.type = "fetchTotalBenefits" -> GetTotalBenefitsHandler(doc)

\* The request makes the store call crypto.randomUUID().
RequestCallsUuid(doc, thunk) ==
    \/ thunk.type = "addEmployee"
    \/ /\ thunk.type = "addDependent"
       /\ getEmployeeById(doc, thunk.arg.employeeId).present

\* The thunk after the server has handled its request (for
\* fetchEmployeeBenefits: the next of its GET /api/employees/[id]).
Answered(doc, thunk, uuid) ==
    IF thunk.type = "fetchEmployeeBenefits"
    THEN LET id == thunk.arg[Len(thunk.response.data) + 1]
             r == GetEmployeeBenefitsHandler(doc, id).resp
             results == Append(thunk.response.data, [id |-> id, benefits |-> r.data])
         IN  IF r.kind # "success"
             THEN [thunk EXCEPT !.phase = "answered",
                                !.response = [kind |-> "error", error |-> r.error]]
             ELSE IF Len(results) = Len(thunk.arg)
             THEN [thunk EXCEPT !.phase = "answered",
                                !.response = [kind |-> "success", data |-> results]]
             ELSE [thunk EXCEPT !.response = [kind |-> "partial", data |-> results]]
    ELSE [thunk EXCEPT !.phase = "answered",
                       !.response = Request(doc, thunk, uuid).resp]

\* The lifecycle action the thunk ends with, from what its payload creator
\* returns for the response.  deleteEmployeeAsync returns its id,
\* deleteDependentAsync its argument, the others data.data.
Settled(thunk) ==
    LET r == thunk.response
    IN  IF r.kind = "success"
        THEN Fulfilled(thunk.type,
                 IF thunk.type \in {"deleteEmployee", "deleteDependent"}
                 THEN thunk.arg ELSE r.data)
        ELSE IF r.kind = "error" THEN RejectedWithValue(thunk.type, r.error)
        ELSE Rejected(thunk.type, r.message)

\* err.message || fallback, for the value unwrap() throws: the payload (a
\* string, without a message property) after rejectWithValue, else the error.
MessageOr(action, fallback) ==
    IF action.payload.present THEN fallback ELSE action.error

\* dispatch(action): the state after the reducer, and whether EmployeeList
\* sees a new employees array.
Dispatch(s, action) ==
    [state |-> benefitsReducer(s, action), listChanged |-> ReplacesEmployees(s, action)]

\* What runs when a flow's awaited thunk has settled: the state, the next
\* thunk the flow dispatches, the form, and whether employees was replaced.
Continued(s, thunk, form, listChanged) ==
    [state |-> s, thunk |-> thunk, form |-> form, listChanged |-> listChanged]

\* EmployeeList, loadData: fetchEmployees().unwrap(), then
\* fetchTotalBenefits().unwrap(); catch: setError; finally: setLoading(false).
loadDataContinues(s, thunk, form) ==
    LET action == Settled(thunk)
        d == Dispatch(s, action)
        caught == setLoading(setError(d.state,
                                      Some(MessageOr(action, "Failed to load data"))),
                             FALSE)
    IN  IF action.requestStatus = "rejected"
        THEN Continued(caught, NoThunk, form, FALSE)
        ELSE IF thunk.type = "fetchEmployees"
        THEN Continued(benefitsReducer(d.state, Pending("fetchTotalBenefits")),
                       Thunk("fetchTotalBenefits", 0), form, d.listChanged)
        ELSE Continued(setLoading(d.state, FALSE), NoThunk, form, d.listChanged)

\* A handleSubmit whose refetches are not awaited before onHide().
handleSubmitContinues_HidesAtOnce(s, thunk, form) ==
    LET action == Settled(thunk)
        d == Dispatch(s, action)
    IN  IF thunk.type \notin {"fetchEmployees", "fetchTotalBenefits"}
        THEN IF action.requestStatus = "rejected"
             THEN Continued(d.state, NoThunk,
                            [form EXCEPT !.error = Some("Failed to save"),
                                         !.submitting = FALSE], FALSE)
             ELSE Continued(benefitsReducer(d.state, Pending("fetchEmployees")),
                            Thunk("fetchEmployees", 0),
                            [form EXCEPT !.show = FALSE], d.listChanged)
        ELSE IF thunk.type = "fetchEmployees"
        THEN Continued(benefitsReducer(d.state, Pending("fetchTotalBenefits")),
                       Thunk("fetchTotalBenefits", 0), form, d.listChanged)
        ELSE Continued(d.state, NoThunk,
                       [form EXCEPT !.show = FALSE, !.submitting = FALSE],
                       d.listChanged)

\* EmployeeForm / DependentForm, handleSubmit after its validation: the
\* mutation thunk unwrapped, then fetchEmployees and fetchTotalBenefits
\* awaited without unwrap, then onHide(); catch: setError; finally:
\* setSubmitting(false).
handleSubmitContinues(s, thunk, form) ==
    LET action == Settled(thunk)
        d == Dispatch(s, action)
        fallback == IF form.kind \in {"addEmployee", "editEmployee"}
                    THEN "Failed to save employee" ELSE "Failed to save dependent"
    IN  IF thunk.type \notin {"fetchEmployees", "fetchTotalBenefits"}
        THEN IF action.requestStatus = "rejected"
             THEN Continued(d.state, NoThunk,
                            [form EXCEPT !.error = Some(MessageOr(action, fallback)),
                                         !.submitting = FALSE], FALSE)
             ELSE Continued(benefitsReducer(d.state, Pending("fetchEmployees")),
                            Thunk("fetchEmployees", 0), form, d.listChanged)
        ELSE IF thunk.type = "fetchEmployees"
        THEN Continued(benefitsReducer(d.state, Pending("fetchTotalBenefits")),
                       Thunk("fetchTotalBenefits", 0), form, d.listChanged)
        ELSE Continued(d.state, NoThunk,
                       [form EXCEPT !.show = FALSE, !.submitting = FALSE],
                       d.listChanged)

\* A deleteEmployeeAsync that is fulfilled with its id whatever the server
\* answered, without refetching.
clickContinues_Optimistic(s, thunk, form) ==
    IF thunk.type = "deleteEmployee"
    THEN LET d == Dispatch(s, Fulfilled("deleteEmployee", thunk.arg))
         IN  Continued(d.state, NoThunk, form, d.listChanged)
    ELSE LET d == Dispatch(s, Settled(thunk))
         IN  Continued(d.state, NoThunk, form, d.listChanged)

\* Employee, handleDeleteEmployee / handleDeleteDependent: the thunk is
\* dispatched and not awaited.  deleteEmployeeAsync, once the server answered
\* success, awaits dispatch(fetchTotalBenefits()) and then returns its id.
clickContinues(s, thunk, form) ==
    IF thunk.type = "deleteEmployee"
    THEN IF thunk.response.kind = "success"
         THEN Continued(benefitsReducer(s, Pending("fetchTotalBenefits")),
                        Thunk("fetchTotalBenefits", thunk.arg), form, FALSE)
         ELSE Continued(Dispatch(s, Settled(thunk)).state, NoThunk, form, FALSE)
    ELSE IF thunk.type = "fetchTotalBenefits"
    THEN LET inner == Dispatch(s, Settled(thunk))
             outer == Dispatch(inner.state, Fulfilled("deleteEmployee", thunk.arg))
         IN  Continued(outer.state, NoThunk, form, outer.listChanged)
    ELSE LET d == Dispatch(s, Settled(thunk))
         IN  Continued(d.state, NoThunk, form, d.listChanged)

\* EmployeeList, the effect on [employees]: fetchEmployeeBenefits is
\* dispatched and not awaited.
effectContinues(s, thunk, form) ==
    LET d == Dispatch(s, Settled(thunk))
    IN  Continued(d.state, NoThunk, form, d.listChanged)

\* ------------------------------------ SpecClient: the page and its server

\* Names typed into a form.
TypedFirstNames == {<<"A", "l">>, <<"B", "a", " ">>, <<" ">>, <<>>}
TypedLastNames == {<<"D", "o", "e">>, <<" ", " ">>}

\* The employee of Redux state rendered with key id, and its dependent.
Rendered(id) == state.employees[findIndex(state.employees, id)]
IsRendered(id) == findIndex(state.employees, id) # 0
RenderedDependent(id, dependentId) ==
    Rendered(id).dependents[findIndex(Rendered(id).dependents, dependentId)]
IsRenderedDependent(id, dependentId) ==
    /\ IsRendered(id)
    /\ findIndex(Rendered(id).dependents, dependentId) # 0

\* A document the server may hold when the page is opened.
ClientDocs ==
    {<<>>, <<FileEmployee(1, <<>>)>>, <<FileEmployee(1, <<FileDependent(2, 1)>>)>>}

SpecClientInit ==
    /\ store \in ClientDocs
    /\ nextId = Persons(store) + 1
    /\ resp = NoResponse
    /\ calcInput = <<>>
    /\ calcOut = NoCall
    /\ employees = <<>>
    /\ serviceOut = NoCall
    /\ file = MissingFile
    /\ proc = [p \in Callers |-> Idle]
    /\ hist = NoHistory
    /\ ClientInit

ServerUnchanged == UNCHANGED <<store, nextId, resp, calcVars, serviceVars, fileVars>>

\* The run is cut after MaxUserEvents events of the user, MaxFetchFailures
\* failed requests and MaxOtherRequests requests of other clients; view
\* counts them.
UserEvent(v) ==
    /\ view.events < MaxUserEvents
    /\ view' = [v EXCEPT !.events = @ + 1]

\* EmployeeList mounts: loadData dispatches setLoading(true) and
\* fetchEmployees(); the effect on [employees] finds the list empty.
Mount ==
    /\ ~view.mounted
    /\ UserEvent([view EXCEPT !.mounted = TRUE])
    /\ state' = benefitsReducer(setLoading(state, TRUE), Pending("fetchEmployees"))
    /\ thunks' = [thunks EXCEPT !["loadData"] = Thunk("fetchEmployees", 0)]
    /\ UNCHANGED inline
    /\ ServerUnchanged

\* A button opens a modal form: Add Employee (EmployeeList), Edit
\* (Employee), Add Dependent (handleAddDependent), or handleEditDependent.
\* The form's effect on [employee, show] clears its error.
OpenForm(kind, id, dependentId) ==
    /\ view.mounted
    /\ ~view.form.show
    /\ ~view.form.submitting
    /\ CASE kind = "addEmployee" -> id = 0 /\ dependentId = 0
         [] kind \in {"editEmployee", "addDependent"} ->
                IsRendered(id) /\ dependentId = 0
         [] kind = "editDependent" -> IsRenderedDependent(id, dependentId)
    /\ UserEvent([view EXCEPT !.form =
                      [kind |-> kind, id |-> id, dependent |-> dependentId,
                       show |-> TRUE, error |-> Undefined, submitting |-> FALSE]])
    /\ UNCHANGED <<state, thunks, inline>>
    /\ ServerUnchanged

\* Cancel, or the modal's close button: onHide().
CloseForm ==
    /\ view.form.show
    /\ UserEvent([view EXCEPT !.form.show = FALSE])
    /\ UNCHANGED <<state, thunks, inline>>
    /\ ServerUnchanged

\* The thunk handleSubmit dispatches for the form and the names typed.
SubmittedThunk(form, firstName, lastName) ==
    CASE form.kind = "addEmployee" ->
             Thunk("addEmployee",
                   [firstName |-> trim(firstName), lastName |-> trim(lastName)])
      [] form.kind = "editEmployee" ->
             Thunk("updateEmployee",
                   [Rendered(form.id) EXCEPT !.firstName = trim(firstName),
                                             !.lastName = trim(lastName)])
      [] form.kind = "addDependent" ->
             Thunk("addDependent",
                   [firstName |-> trim(firstName), lastName |-> trim(lastName),
                    employeeId |-> form.id])
      [] form.kind = "editDependent" ->
             Thunk("updateDependent",
                   [RenderedDependent(form.id, form.dependent) EXCEPT
                        !.firstName = trim(firstName),
                        !.lastName = trim(lastName),
                        !.employeeId = form.id])

\* handleSubmit up to its first await.
Submit(firstName, lastName) ==
    LET form == view.form
        thunk == SubmittedThunk(form, firstName, lastName)
    IN  /\ form.show
        /\ ~form.submitting
        /\ form.kind \in {"editEmployee", "addDependent"} => IsRendered(form.id)
        /\ form.kind = "editDependent" => IsRenderedDependent(form.id, form.dependent)
        /\ form.kind \in {"addEmployee", "addDependent"} => nextId <= MaxIds
        /\ IF trim(firstName) = <<>> \/ trim(lastName) = <<>>
           THEN /\ UserEvent([view EXCEPT !.form.error =
                                  Some("First and last name are required.")])
                /\ UNCHANGED <<state, thunks>>
           ELSE /\ UserEvent([view EXCEPT !.form.error = Undefined,
                                          !.form.submitting = TRUE])
                /\ state' = benefitsReducer(state, Pending(thunk.type))
                /\ thunks' = [thunks EXCEPT !["form"] = thunk]
        /\ UNCHANGED inline
        /\ ServerUnchanged

\* Employee, handleDeleteEmployee with the confirm accepted.
ClickDeleteEmployee(id) ==
    /\ view.mounted
    /\ ~view.form.show
    /\ IsRendered(id)
    /\ thunks["click"].phase = "idle"
    /\ state' = benefitsReducer(state, Pending("deleteEmployee"))
    /\ thunks' = [thunks EXCEPT !["click"] = Thunk("deleteEmployee", id)]
    /\ UserEvent(view)
    /\ UNCHANGED inline
    /\ ServerUnchanged

\* Employee, handleDeleteDependent with the confirm accepted.
ClickDeleteDependent(id, dependentId) ==
    /\ view.mounted
    /\ ~view.form.show
    /\ IsRenderedDependent(id, dependentId)
    /\ thunks["click"].phase = "idle"
    /\ state' = benefitsReducer(state, Pending("deleteDependent"))
    /\ thunks' = [thunks EXCEPT !["click"] =
                      Thunk("deleteDependent",
                            [employeeId |-> id, dependentId |-> dependentId])]
    /\ UserEvent(view)
    /\ UNCHANGED inline
    /\ ServerUnchanged

\* The server handles the request of a thunk.
Respond(slot) ==
    LET thunk == thunks[slot]
        uuid == thunk.type # "fetchEmployeeBenefits" /\ RequestCallsUuid(store, thunk)
    IN  /\ thunk.phase = "sent"
        /\ uuid => nextId <= MaxIds
        /\ store' = IF thunk.type = "fetchEmployeeBenefits" THEN store
                    ELSE Request(store, thunk, nextId).doc
        /\ nextId' = IF uuid THEN nextId + 1 ELSE nextId
        /\ thunks' = [thunks EXCEPT ![slot] = Answered(store, thunk, nextId)]
        /\ UNCHANGED <<resp, calcVars, serviceVars, fileVars, state, view, inline>>

\* The request of a thunk fails: fetch() throws, the server is not reached.
\* fetchEmployeeBenefits catches and rejects with the message.
FetchFails(slot) ==
    LET thunk == thunks[slot]
    IN  /\ thunk.phase = "sent"
        /\ view.failures < MaxFetchFailures
        /\ view' = [view EXCEPT !.failures = @ + 1]
        /\ thunks' = [thunks EXCEPT ![slot] =
                          [thunk EXCEPT
                              !.phase = "answered",
                              !.response =
                                  IF thunk.type = "fetchEmployeeBenefits"
                                  THEN [kind |-> "error", error |-> Threw.message]
                                  ELSE Threw]]
        /\ UNCHANGED <<state, inline>>
        /\ ServerUnchanged

\* What the flow that awaits the thunk does when it has settled.
Continues(slot, s, thunk, form) ==
    CASE slot = "loadData" -> loadDataContinues(s, thunk, form)
      [] slot = "form" -> handleSubmitContinues(s, thunk, form)
      [] slot = "click" -> clickContinues(s, thunk, form)
      [] slot = "effect" -> effectContinues(s, thunk, form)

\* The response reaches the thunk: it dispatches fulfilled or rejected and
\* the flow awaiting it runs on to its next await.  When employees was
\* replaced by a non-empty list, the effect of EmployeeList dispatches
\* fetchEmployeeBenefits(employees).
Settle(slot) ==
    LET after == Continues(slot, state, thunks[slot], view.form)
        runsEffect == after.listChanged /\ Len(after.state.employees) > 0
    IN  /\ thunks[slot].phase = "answered"
        /\ runsEffect => thunks["effect"].phase = "idle"
        /\ state' = after.state
        /\ view' = [view EXCEPT !.form = after.form]
        /\ thunks' = [t \in ThunkSlots |->
                         IF t = "effect" /\ runsEffect
                         THEN BenefitsThunk(after.state.employees)
                         ELSE IF t = slot THEN after.thunk ELSE thunks[t]]
        /\ UNCHANGED inline
        /\ ServerUnchanged

FormKinds == {"addEmployee", "editEmployee", "addDependent", "editDependent"}

ClientNext ==
    \/ Mount
    \/ \E kind \in FormKinds, id \in 0..MaxIds, dependentId \in 0..MaxIds :
           OpenForm(kind, id, dependentId)
    \/ CloseForm
    \/ \E firstName \in TypedFirstNames, lastName \in TypedLastNames :
           Submit(firstName, lastName)
    \/ \E id \in Ids : ClickDeleteEmployee(id)
    \/ \E id \in Ids, dependentId \in Ids : ClickDeleteDependent(id, dependentId)
    \/ \E slot \in ThunkSlots : Respond(slot)
    \/ \E slot \in ThunkSlots : FetchFails(slot)
    \/ \E slot \in ThunkSlots : Settle(slot)

SpecClient == SpecClientInit /\ [][ClientNext]_vars

\* ------------------ SpecShared: the page, and requests of other clients

\* A request that does not come from this page is handled; the run is cut
\* after MaxOtherRequests of them.
OtherRequest(h, uuids) ==
    /\ view.others < MaxOtherRequests
    /\ view' = [view EXCEPT !.others = @ + 1]
    /\ store' = h.doc
    /\ nextId' = nextId + uuids
    /\ resp' = [route |-> h.resp.route, status |-> h.resp.status]
    /\ UNCHANGED <<calcVars, serviceVars, fileVars, state, thunks, inline>>

\* DELETE /api/employees/[id] from another client.
OtherDeleteEmployee(id) ==
    /\ id \in Ids
    /\ OtherRequest(DeleteEmployeeHandler(store, id), 0)

\* POST /api/employees/[id]/dependents from another client.
OtherPostDependent(id, firstName) ==
    /\ getEmployeeById(store, id).present
    /\ nextId <= MaxIds
    /\ OtherRequest(PostDependentHandler(store, id,
                        [firstName |-> firstName, lastName |-> <<"D", "o", "e">>,
                         id |-> Undefined], nextId), 1)

\* DELETE /api/employees/[id]/dependents from another client.
OtherDeleteDependent(id, dependentId) ==
    /\ id \in Ids
    /\ OtherRequest(DeleteDependentHandler(store, id, Some(dependentId)), 0)

SharedNext ==
    \/ ClientNext
    \/ \E id \in Ids : OtherDeleteEmployee(id)
    \/ \E id \in Ids : OtherPostDependent(id, Al)
    \/ \E id \in Ids, dependentId \in Ids : OtherDeleteDependent(id, dependentId)

SpecShared == SpecClientInit /\ [][SharedNext]_vars

\* -------------------------- SpecInline: the inline edit of a dependent

\* The employee prop of the Employee component: one employee with
\* MaxInlineDependents dependents.
InlineEmployee ==
    FileEmployee(1, [i \in 1..MaxInlineDependents |-> FileDependent(i + 1, 1)])

InlineDependents == {InlineEmployee.dependents[i] : i \in 1..MaxInlineDependents}

\* Names typed into the inline inputs.
InlineNames == {Al, <<" ">>}

\* editingDependent?.id !== dependent.id
IsEditing(ui, dependent) ==
    ui.editingDependent.present /\ ui.editingDependent.value.id = dependent.id

\* A handleEditInlineDependent that never asks.
handleEditInlineDependent_NoConfirm(ui, dependent) ==
    [ui EXCEPT !.editingDependent = Some(dependent),
               !.dependentInlineFirstName = dependent.firstName,
               !.dependentInlineLastName = dependent.lastName,
               !.showInlineDependentEdit = TRUE]

handleEditInlineDependent(ui, dependent) ==
    IF ui.showInlineDependentEdit /\ ~IsEditing(ui, dependent)
    THEN [ui EXCEPT !.pendingEditDependent = Some(dependent),
                    !.showConfirmModal = TRUE]
    ELSE [ui EXCEPT !.editingDependent = Some(dependent),
                    !.dependentInlineFirstName = dependent.firstName,
                    !.dependentInlineLastName = dependent.lastName,
                    !.showInlineDependentEdit = TRUE]

handleConfirmEdit(ui) ==
    LET confirmed ==
            IF ui.pendingEditDependent.present
            THEN [ui EXCEPT
                     !.editingDependent = ui.pendingEditDependent,
                     !.dependentInlineFirstName = ui.pendingEditDependent.value.firstName,
                     !.dependentInlineLastName = ui.pendingEditDependent.value.lastName,
                     !.showInlineDependentEdit = TRUE]
            ELSE ui
    IN  [confirmed EXCEPT !.showConfirmModal = FALSE,
                          !.pendingEditDependent = Undefined]

handleCancelEdit(ui) ==
    [ui EXCEPT !.showConfirmModal = FALSE, !.pendingEditDependent = Undefined]

\* dispatch(updateDependentAsync({ ...editingDependent, firstName, lastName }))
\* when a dependent is being edited; the argument dispatched is kept.
handleInlineDependentSubmit(ui) ==
    [ui EXCEPT
        !.dispatched =
            IF ui.editingDependent.present
            THEN Some([ui.editingDependent.value EXCEPT
                          !.firstName = ui.dependentInlineFirstName,
                          !.lastName = ui.dependentInlineLastName])
            ELSE @,
        !.showInlineDependentEdit = FALSE]

handleAddDependent(ui) ==
    [ui EXCEPT !.editingDependent = Undefined, !.showDependentForm = TRUE]

handleCloseDependentForm(ui) ==
    [ui EXCEPT !.showDependentForm = FALSE, !.editingDependent = Undefined]

\* A modal (the confirmation or the dependent form) covers the card.
ModalOpen == inline.showConfirmModal \/ inline.showDependentForm

\* The row of the dependent shows the inline form instead of its buttons.
RowInEdit(dependent) ==
    inline.showInlineDependentEdit /\ IsEditing(inline, dependent)

InlineStep(ui) ==
    /\ inline' = ui
    /\ UNCHANGED <<calcVars, storeVars, serviceVars, fileVars, state, thunks, view>>

\* Edit on a row that shows its buttons.
EditInlineDependent(dependent) ==
    /\ ~ModalOpen
    /\ ~RowInEdit(dependent)
    /\ InlineStep(handleEditInlineDependent(inline, dependent))

\* Continue in the confirmation modal.
ConfirmEdit ==
    /\ inline.showConfirmModal
    /\ InlineStep(handleConfirmEdit(inline))

\* Cancel in the confirmation modal, or its close button.
CancelEdit ==
    /\ inline.showConfirmModal
    /\ InlineStep(handleCancelEdit(inline))

\* onChange of the first-name input of the inline form.
TypeInlineFirstName(name) ==
    /\ ~ModalOpen
    /\ \E dependent \in InlineDependents : RowInEdit(dependent)
    /\ InlineStep([inline EXCEPT !.dependentInlineFirstName = name])

\* Save in the inline form; the inputs are required, so not empty.
InlineDependentSubmit ==
    /\ ~ModalOpen
    /\ \E dependent \in InlineDependents : RowInEdit(dependent)
    /\ inline.dependentInlineFirstName # <<>>
    /\ inline.dependentInlineLastName # <<>>
    /\ InlineStep(handleInlineDependentSubmit(inline))

\* Cancel in the inline form: setShowInlineDependentEdit(false).
CancelInline ==
    /\ ~ModalOpen
    /\ \E dependent \in InlineDependents : RowInEdit(dependent)
    /\ InlineStep([inline EXCEPT !.showInlineDependentEdit = FALSE])

\* Add Dependent opens the dependent form.
AddDependent ==
    /\ ~ModalOpen
    /\ InlineStep(handleAddDependent(inline))

\* The dependent form is hidden.
CloseDependentForm ==
    /\ inline.showDependentForm
    /\ InlineStep(handleCloseDependentForm(inline))

InlineNext ==
    \/ \E dependent \in InlineDependents : EditInlineDependent(dependent)
    \/ ConfirmEdit
    \/ CancelEdit
    \/ \E name \in InlineNames : TypeInlineFirstName(name)
    \/ InlineDependentSubmit
    \/ CancelInline
    \/ AddDependent
    \/ CloseDependentForm

SpecInline == Init /\ [][InlineNext]_vars

\* ------------------------------------------- claims on the calculation

CalcIsSingle == calcOut.fn = "calculateBenefits"
CalcIsTotal == calcOut.fn = "calculateTotalBenefits"
CalcArg == calcInput[calcOut.arg]

\* The discount rule as the specification words it: the first letter of the
\* first name is 'A' or 'a'.
NameQualifies(firstName) == Len(firstName) > 0 /\ firstName[1] \in {"A", "a"}

QualifyingDependents(employee) ==
    Cardinality({i \in 1..Len(employee.dependents) :
                     NameQualifies(employee.dependents[i].firstName)})

\* C1: for every employee, the result of calculateBenefits (either
\* implementation) has totalCost = employeeCost + dependentCost - discount,
\* employeeCost = 1000 and perYear = totalCost.
C1_TotalCostIdentity ==
    CalcIsSingle =>
        LET v == calcOut.value
        IN  /\ v.totalCost = RatSub(RatAdd(v.employeeCost, v.dependentCost), v.discount)
            /\ v.employeeCost = Num(1000)
            /\ v.perYear = v.totalCost

\* C1 witness: the store's calculation of a discounted employee with a
\* discounted and an undiscounted dependent.
C1_Witness ==
    /\ CalcIsSingle
    /\ calcOut.impl = "employeeStore"
    /\ Len(CalcArg.dependents) = 2
    /\ calcOut.value.discount = Num(150)
    /\ calcOut.value.totalCost = Num(1850)

\* C2: the discount is per person and case-insensitive: 10% of 1000 when the
\* employee's first name starts with 'A' or 'a', plus 10% of 500 for each
\* dependent whose first name starts with 'A' or 'a' (either implementation).
C2_DiscountPerPersonCaseInsensitive ==
    CalcIsSingle =>
        calcOut.value.discount =
            Num((IF NameQualifies(CalcArg.firstName) THEN 100 ELSE 0)
                + 50 * QualifyingDependents(CalcArg))

\* C2, for employeeStore.ts alone (holds).
C2_StoreDiscountPerPerson ==
    (CalcIsSingle /\ calcOut.impl = "employeeStore") =>
        calcOut.value.discount =
            Num((IF NameQualifies(CalcArg.firstName) THEN 100 ELSE 0)
                + 50 * QualifyingDependents(CalcArg))

\* Sum of one field over a sequence of calculations, last one first.
RECURSIVE FieldSum(_, _)
FieldSum(results, field) ==
    IF results = <<>> THEN Num(0)
    ELSE RatAdd(results[Len(results)][field],
                FieldSum(SubSeq(results, 1, Len(results) - 1), field))

StoreResults == [i \in 1..Len(calcInput) |-> calculateBenefits(calcInput[i])]
ServiceResults == [i \in 1..Len(calcInput) |-> serviceCalculateBenefits(calcInput[i])]

CostFields ==
    {"employeeCost", "dependentCost", "discount", "totalCost", "perPaycheck", "perYear"}

SixFieldsAreSums(results, v) ==
    \A field \in CostFields : v[field] = FieldSum(results, field)

\* C3 as stated: the aggregate equals the sum of calculateBenefits over all
\* employees in every field of BenefitsCalculation, the two paycheck figures
\* included (violated: they are not summed).
C3_AggregateIsFieldwiseSum ==
    /\ (CalcIsTotal /\ calcOut.impl = "benefitsService") =>
           SixFieldsAreSums(ServiceResults, calcOut.value)
    /\ (CalcIsTotal /\ calcOut.impl = "employeeStore") =>
           /\ SixFieldsAreSums(StoreResults, calcOut.value)
           /\ calcOut.value.paycheckAfterDeductions =
                  FieldSum(StoreResults, "paycheckAfterDeductions")
           /\ calcOut.value.paycheckBeforeDeductions =
                  FieldSum(StoreResults, "paycheckBeforeDeductions")

\* C3 amended: the aggregate equals the sum of calculateBenefits over all
\* employees in employeeCost, dependentCost, discount, totalCost, perPaycheck
\* and perYear (all zero for the empty store); the store's aggregate has
\* paycheckBeforeDeductions = 2000 and paycheckAfterDeductions = 2000 minus
\* the aggregate perPaycheck.
C3_AggregateSumsCostFields ==
    /\ (CalcIsTotal /\ calcOut.impl = "benefitsService") =>
           SixFieldsAreSums(ServiceResults, calcOut.value)
    /\ (CalcIsTotal /\ calcOut.impl = "employeeStore") =>
           /\ SixFieldsAreSums(StoreResults, calcOut.value)
           /\ calcOut.value.paycheckBeforeDeductions = Num(2000)
           /\ calcOut.value.paycheckAfterDeductions =
                  RatSub(Num(2000), calcOut.value.perPaycheck)
    /\ (CalcIsTotal /\ calcInput = <<>>) =>
           /\ calcOut.value.employeeCost = Num(0)
           /\ calcOut.value.dependentCost = Num(0)
           /\ calcOut.value.discount = Num(0)
           /\ calcOut.value.totalCost = Num(0)
           /\ calcOut.value.perPaycheck = Num(0)
           /\ calcOut.value.perYear = Num(0)

\* C3 witness: the store's aggregate over two employees with dependents and
\* different discounts.
C3_Witness ==
    /\ CalcIsTotal
    /\ calcOut.impl = "employeeStore"
    /\ Len(calcInput) = 2
    /\ calcOut.value.dependentCost = Num(1000)
    /\ calcOut.value.discount = Num(150)
    /\ calcOut.value.totalCost = Num(2850)

\* ------------------------------------------------- claims on the store

HasEmployee(doc, id) == \E i \in 1..Len(doc) : doc[i].id = id

\* Some employee with this id has a dependent with this id.
HasDependent(doc, employeeId, dependentId) ==
    \E i \in 1..Len(doc) :
        /\ doc[i].id = employeeId
        /\ \E j \in 1..Len(doc[i].dependents) : doc[i].dependents[j].id = dependentId

\* The ids of the dependents of the employees with this id.
DependentIdsOf(doc, id) ==
    {doc[i].dependents[j].id :
         <<i, j>> \in {p \in (1..Len(doc)) \X (1..MaxPersons) :
                           /\ doc[p[1]].id = id
                           /\ p[2] <= Len(doc[p[1]].dependents)}}

NotFound(response) == response.status = 404 /\ response.kind = "error"

\* C4: after a successful deleteEmployee(id) the store holds neither the
\* employee nor any of its dependents: getEmployeeById(id) finds nothing and
\* an update or delete of one of those dependent ids, under any employee id,
\* is answered NotFound.
C4_DeleteEmployeeRemovesDependents ==
    \A id \in Ids :
        LET h == DeleteEmployeeHandler(store, id)
        IN  h.resp.status = 200 =>
                /\ ~getEmployeeById(h.doc, id).present
                /\ \A d \in DependentIdsOf(store, id), e \in Ids :
                       /\ NotFound(DeleteDependentHandler(h.doc, e, Some(d)).resp)
                       /\ \A body \in {b \in UpdateDependentBodies : b.id = d} :
                              NotFound(PutDependentHandler(h.doc, e, body).resp)

\* C5: updateEmployee with an id that is not in the store, and
\* updateDependent with an employee id or dependent id that is not in the
\* store, return NotFound, write nothing and leave the document as it was.
C5_UpdateAbsentIsNotFound ==
    /\ \A id \in Ids, body \in UpdateEmployeeBodies :
           ~HasEmployee(store, id) =>
               LET h == PutEmployeeHandler(store, id, body)
                   updated == [id |-> id, type |-> body.type,
                               firstName |-> body.firstName,
                               lastName |-> body.lastName,
                               dependents |-> body.dependents]
               IN  /\ NotFound(h.resp)
                   /\ h.doc = store
                   /\ ~updateEmployee(store, updated).write
    /\ \A id \in Ids, body \in UpdateDependentBodies :
           ~HasDependent(store, id, body.id) =>
               LET h == PutDependentHandler(store, id, body)
                   dep == [id |-> body.id, type |-> body.type,
                           firstName |-> body.firstName,
                           lastName |-> body.lastName, employeeId |-> id]
               IN  /\ NotFound(h.resp)
                   /\ h.doc = store
                   /\ ~updateDependent(store, dep).write

\* C5 witness: an update of an absent employee was answered 404 while the
\* store holds an employee with a dependent.
C5_Witness ==
    /\ resp = [route |-> "PUT /api/employees/[id]", status |-> 404]
    /\ Len(store) = 1
    /\ Len(store[1].dependents) = 1

\* C6, for employeeStore.ts: deleting an absent employee, or a dependent
\* whose employee id or dependent id is absent, is answered NotFound, writes
\* nothing and leaves the document as it was.
C6_StoreDeleteAbsentIsNotFound ==
    /\ \A id \in Ids :
           ~HasEmployee(store, id) =>
               LET h == DeleteEmployeeHandler(store, id)
               IN  /\ NotFound(h.resp)
                   /\ h.doc = store
                   /\ ~deleteEmployee(store, id).write
    /\ \A id \in Ids, d \in Ids :
           ~HasDependent(store, id, d) =>
               LET h == DeleteDependentHandler(store, id, Some(d))
               IN  /\ NotFound(h.resp)
                   /\ h.doc = store
                   /\ ~deleteDependent(store, id, d).write

\* C7: creating a dependent under an employee id that is not in the store is
\* answered 404 'Employee not found' and writes nothing; under an existing
\* employee it appends exactly one dependent, the one returned, to that
\* employee's list and changes nothing else.
C7_CreateDependent ==
    \A id \in Ids, body \in CreateDependentBodies :
        LET h == PostDependentHandler(store, id, body, nextId)
        IN  /\ ~HasEmployee(store, id) =>
                   /\ h.resp.status = 404
                   /\ h.resp.error = "Employee not found"
                   /\ h.doc = store
            /\ HasEmployee(store, id) =>
                   /\ h.resp.status = 200
                   /\ h.resp.data.employeeId = id
                   /\ h.resp.data.firstName = body.firstName
                   /\ Len(h.doc) = Len(store)
                   /\ \E i \in 1..Len(store) :
                          /\ store[i].id = id
                          /\ h.doc[i] = [store[i] EXCEPT
                                            !.dependents = Append(@, h.resp.data)]
                          /\ \A j \in 1..Len(store) : j # i => h.doc[j] = store[j]

\* C7 witness: a dependent was created under an employee that now has two.
C7_Witness ==
    /\ resp = [route |-> "POST /api/employees/[id]/dependents", status |-> 200]
    /\ \E i \in 1..Len(store) : Len(store[i].dependents) = 2

C9_DependentsBelongToOwner ==
    \A i \in 1..Len(store) :
        \A j \in 1..Len(store[i].dependents) :
            /\ store[i].dependents[j].employeeId = store[i].id
            /\ Cardinality({k \in 1..Len(store) :
                                store[k].id = store[i].dependents[j].employeeId}) = 1

\* C10: employee ids are pairwise distinct, no dependents list holds two
\* dependents with the same id, and create employee yields a record with an
\* id no stored record has and an empty dependents list, whatever the body.
C10_IdsUniqueAndCreateFresh ==
    /\ \A i, k \in 1..Len(store) : i # k => store[i].id # store[k].id
    /\ \A i \in 1..Len(store) :
           \A j, k \in 1..Len(store[i].dependents) :
               j # k => store[i].dependents[j].id # store[i].dependents[k].id
    /\ \A body \in CreateEmployeeBodies :
           LET created == PostEmployeeHandler(store, body, nextId).resp.data
           IN  /\ ~HasEmployee(store, created.id)
               /\ \A i \in 1..Len(store) :
                      \A j \in 1..Len(store[i].dependents) :
                          store[i].dependents[j].id # created.id
               /\ created.dependents = <<>>

\* ----------------------------------------------- claims on the service

\* C5, for benefitsService: updateEmployee with an id the array does not hold,
\* and updateDependent with an employee id or dependent id it does not hold,
\* return an error response and leave the array as it was.
C5_ServiceUpdateAbsentFails ==
    /\ \A employee \in ServiceEmployees :
           ~HasEmployee(employees, employee.id) =>
               LET r == serviceUpdateEmployee(employees, employee)
               IN  r.resp.status = "error" /\ r.employees = employees
    /\ \A dependent \in ServiceDependents :
           ~HasDependent(employees, dependent.employeeId, dependent.id) =>
               LET r == serviceUpdateDependent(employees, dependent)
               IN  r.resp.status = "error" /\ r.employees = employees

\* C6: deleting an employee whose id is absent, or a dependent whose employee
\* id or dependent id is absent, leaves the store unchanged and the caller
\* does not receive a success result.
C6_DeleteAbsentIsNotSuccess ==
    /\ \A id \in Ids :
           ~HasEmployee(employees, id) =>
               LET r == serviceDeleteEmployee(employees, id)
               IN  r.resp.status # "success" /\ r.employees = employees
    /\ \A employeeId \in Ids, dependentId \in Ids :
           ~HasDependent(employees, employeeId, dependentId) =>
               LET r == serviceDeleteDependent(employees, employeeId, dependentId)
               IN  r.resp.status # "success" /\ r.employees = employees

\* C8, for benefitsService: calculateBenefits(employeeId) returns an error
\* when the array holds no such employee, and otherwise the calculation of a
\* record held under that id.
C8_ServiceBenefitsOfStoredRecord ==
    \A id \in Ids :
        LET r == serviceCalculateBenefitsById(employees, id).resp
        IN  /\ ~HasEmployee(employees, id) => r.status = "error"
            /\ HasEmployee(employees, id) =>
                   /\ r.status = "success"
                   /\ \E i \in 1..Len(employees) :
                          /\ employees[i].id = id
                          /\ r.data = serviceCalculateBenefits(employees[i])

\* ----------------------------------- claims on overlapping store calls

\* Both calls have returned and both wrote the document.
BothWrote(p, q) == p # q /\ HasWritten(p) /\ HasWritten(q)

\* Both calls read the document before either began to write it.
Overlapped(p, q) == proc[p].clean /\ proc[q].clean

\* C11: when two mutating store calls overlap (both read the document before
\* either writes), both return success and the final document is the one the
\* later writer wrote, which is its change applied to the document both
\* read, without the earlier writer's change; when the second call starts
\* after the first has returned, the final document holds both changes.
C11_LastWriterWins ==
    \A p, q \in Callers :
        (BothWrote(p, q) /\ hist.lastWriter = q) =>
            /\ Succeeded(proc[p].call, proc[p].done.result)
            /\ Succeeded(proc[q].call, proc[q].done.result)
            /\ Overlapped(p, q) =>
                   /\ file = Text(proc[q].done.doc)
                   /\ file.doc = StoreCall(proc[q].call, readStore(hist.file0),
                                           proc[q].uuid).doc
            /\ proc[q].after =>
                   /\ file = Text(proc[q].done.doc)
                   /\ file.doc = StoreCall(proc[q].call, proc[p].done.doc,
                                           proc[q].uuid).doc

\* C11, when the later writer's text is not shorter than the earlier
\* writer's: the last writer's document is the final document; and when the
\* second call starts after the first has returned, both changes are kept.
C11_LastWriterWinsUnlessShorter ==
    \A p, q \in Callers :
        (BothWrote(p, q) /\ hist.lastWriter = q) =>
            /\ (Overlapped(p, q)
                  /\ JsonLength(proc[q].done.doc) >= JsonLength(proc[p].done.doc)) =>
                   /\ file = Text(proc[q].done.doc)
                   /\ file.doc = StoreCall(proc[q].call, readStore(hist.file0),
                                           proc[q].uuid).doc
            /\ proc[q].after =>
                   /\ file = Text(proc[q].done.doc)
                   /\ file.doc = StoreCall(proc[q].call, proc[p].done.doc,
                                           proc[q].uuid).doc

\* C12: every store call reads the document once and writes it at most once,
\* a call that returns a failure writes nothing, and the persisted document
\* is at every moment the document as it was at the start or the whole
\* document written by a call that has returned.
C12_AtomicAtDocumentGranularity ==
    /\ \A p \in Callers :
           /\ proc[p].reads <= 1 /\ proc[p].writes <= 1
           /\ proc[p].pc = "returned" => proc[p].reads = 1
           /\ (proc[p].pc = "returned"
                 /\ ~Succeeded(proc[p].call, proc[p].done.result)) =>
                  proc[p].writes = 0
    /\ \/ file = hist.file0
       \/ \E p \in Callers : HasWritten(p) /\ file = Text(proc[p].done.doc)

\* C12, without the moments inside a write: one read, at most one write, no
\* write by a call that fails, and whenever no call is inside writeFile and
\* no two writes overlapped, the document is the start document or the
\* document of the last call to write.
C12_OneReadAtMostOneWrite ==
    \A p \in Callers :
        /\ proc[p].reads <= 1 /\ proc[p].writes <= 1
        /\ proc[p].pc = "returned" => proc[p].reads = 1
        /\ (proc[p].pc = "returned"
              /\ ~Succeeded(proc[p].call, proc[p].done.result)) =>
               proc[p].writes = 0 /\ ~proc[p].done.write

\* C13: a call whose read of the file failed (the file is missing or is not
\* JSON) runs on the empty store and does not fail: list returns the empty
\* list, every lookup by id finds nothing, and the aggregate is the
\* calculation of no employees, all costs zero.
C13_FailedReadIsEmptyStore ==
    /\ ~(file.exists /\ file.parses) => readStore(file) = <<>>
    /\ \A p \in Callers :
           (proc[p].pc = "returned" /\ proc[p].failed) =>
               LET call == proc[p].call
                   result == proc[p].done.result
               IN  /\ proc[p].snap = <<>>
                   /\ call.fn = "getAllEmployees" => result = <<>>
                   /\ call.fn = "getEmployeeById" => ~result.present
                   /\ call.fn \in {"updateEmployee", "addDependent", "updateDependent"} =>
                          ~result.present /\ ~proc[p].done.write
                   /\ call.fn \in {"deleteEmployee", "deleteDependent"} =>
                          ~result /\ ~proc[p].done.write
                   /\ call.fn = "calculateTotalBenefits" =>
                          /\ result = StoreTotalSeed
                          /\ \A field \in CostFields : result[field] = Num(0)

\* C13 witness: the aggregate was computed by a call whose read failed on a
\* file that exists and is not JSON.
C13_Witness ==
    \E p \in Callers :
        /\ proc[p].pc = "returned"
        /\ proc[p].failed
        /\ proc[p].call.fn = "calculateTotalBenefits"
        /\ hist.file0.parses

\* ------------------------------------------------ claims on validation

\* Names a body may carry that are blank: empty, or white space only.
BlankNames == {<<>>, <<" ", " ">>}
IsBlank(name) == \A i \in 1..Len(name) : name[i] = " "

\* C14: creating or updating an employee or a dependent with a blank
\* firstName or lastName is answered with an error and leaves the store
\* unchanged.
C14_BlankNameIsRejected ==
    \A firstName \in RequestFirstNames \cup BlankNames,
       lastName \in LastNames \cup BlankNames :
        (IsBlank(firstName) \/ IsBlank(lastName)) =>
            /\ LET h == PostEmployeeHandler(store,
                            [firstName |-> firstName, lastName |-> lastName,
                             id |-> Undefined, dependents |-> Undefined], nextId)
               IN  h.resp.kind = "error" /\ h.doc = store
            /\ \A id \in Ids :
                   /\ LET h == PutEmployeeHandler(store, id,
                                   [type |-> "employee", firstName |-> firstName,
                                    lastName |-> lastName, dependents |-> <<>>])
                      IN  h.resp.kind = "error" /\ h.doc = store
                   /\ LET h == PostDependentHandler(store, id,
                                   [firstName |-> firstName, lastName |-> lastName,
                                    id |-> Undefined], nextId)
                      IN  h.resp.kind = "error" /\ h.doc = store
                   /\ \A d \in Ids :
                          LET h == PutDependentHandler(store, id,
                                       [id |-> d, type |-> "dependent",
                                        firstName |-> firstName, lastName |-> lastName])
                          IN  h.resp.kind = "error" /\ h.doc = store

\* ------------------------------------ claims on the calculated amounts

MoneyFields(v) ==
    IF calcOut.impl = "employeeStore"
    THEN CostFields \cup {"paycheckAfterDeductions", "paycheckBeforeDeductions"}
    ELSE CostFields

\* C15: every monetary field of a calculation, of one employee or of the
\* aggregate, is >= 0.
C15_MoneyIsNonNegative ==
    (CalcIsSingle \/ CalcIsTotal) =>
        \A field \in MoneyFields(calcOut.value) : RatNonNeg(calcOut.value[field])

\* C15, for the costs: employeeCost, dependentCost, discount, totalCost,
\* perPaycheck and perYear are >= 0, and paycheckAfterDeductions is >= 0 as
\* long as totalCost is at most 26 x 2000.
C15_CostsAreNonNegative ==
    (CalcIsSingle \/ CalcIsTotal) =>
        LET v == calcOut.value
        IN  /\ \A field \in CostFields : RatNonNeg(v[field])
            /\ calcOut.impl = "employeeStore" =>
                   /\ RatNonNeg(v.paycheckBeforeDeductions)
                   /\ RatNonNeg(RatSub(Num(PAYCHECKS_PER_YEAR * PAYCHECK_AMOUNT),
                                       v.totalCost)) =>
                          RatNonNeg(v.paycheckAfterDeductions)

\* C16: for every employee perPaycheck = totalCost / 26 and perYear =
\* totalCost, so perPaycheck x 26 = perYear; the aggregate over all employees
\* has perPaycheck x 26 = perYear as well (either implementation).
C16_PaychecksMakeTheYear ==
    (CalcIsSingle \/ CalcIsTotal) =>
        LET v == calcOut.value
        IN  /\ RatMul(v.perPaycheck, Num(PAYCHECKS_PER_YEAR)) = v.perYear
            /\ v.perYear = v.totalCost
            /\ CalcIsSingle => v.perPaycheck = RatDiv(v.totalCost, PAYCHECKS_PER_YEAR)

\* C16 witness: the store's aggregate over two employees whose perPaycheck
\* is not a whole number.
C16_Witness ==
    /\ CalcIsTotal
    /\ calcOut.impl = "employeeStore"
    /\ Len(calcInput) = 2
    /\ calcOut.value.perPaycheck.den # 1

\* C17: for an employee with no dependents, dependentCost is 0 and totalCost
\* is 1000, or 900 exactly when the employee's first name starts with 'A' or
\* 'a' (either implementation).
C17_ZeroDependents ==
    (CalcIsSingle /\ CalcArg.dependents = <<>>) =>
        /\ calcOut.value.dependentCost = Num(0)
        /\ calcOut.value.totalCost =
               Num(IF NameQualifies(CalcArg.firstName) THEN 900 ELSE 1000)

\* C17, for employeeStore.ts alone.
C17_StoreZeroDependents ==
    (CalcIsSingle /\ calcOut.impl = "employeeStore" /\ CalcArg.dependents = <<>>) =>
        /\ calcOut.value.dependentCost = Num(0)
        /\ calcOut.value.totalCost =
               Num(IF NameQualifies(CalcArg.firstName) THEN 900 ELSE 1000)

\* C18: for an employee with N dependents none of whose first names
\* qualifies, dependentCost = N x 500, and if the employee's own name does
\* not qualify, discount = 0 and totalCost = 1000 + N x 500 (either
\* implementation).
C18_UndiscountedDependents ==
    (CalcIsSingle /\ QualifyingDependents(CalcArg) = 0) =>
        LET n == Len(CalcArg.dependents)
            v == calcOut.value
        IN  /\ v.dependentCost = Num(n * 500)
            /\ ~NameQualifies(CalcArg.firstName) =>
                   /\ v.discount = Num(0)
                   /\ v.totalCost = Num(1000 + n * 500)

\* C18 witness: the calculation of an employee with three dependents, no
\* name qualifying.
C18_Witness ==
    /\ CalcIsSingle
    /\ Len(CalcArg.dependents) = 3
    /\ QualifyingDependents(CalcArg) = 0
    /\ ~NameQualifies(CalcArg.firstName)
    /\ calcOut.value.totalCost = Num(2500)

\* ----------------------------------------- claims on reads and on order

HasRun(p) == proc[p].reads = 1
FirstWithId(seq, id) ==
    CHOOSE i \in 1..Len(seq) : seq[i].id = id /\ \A j \in 1..(i - 1) : seq[j].id # id

\* C20: every store function keeps the order of the records: a created
\* employee or dependent is placed last, an updated record stays at its
\* position, and a delete keeps the remaining records in their order.
C20_InsertionOrderKept ==
    \A p \in Callers :
        (HasRun(p) /\ proc[p].done.write) =>
            LET call == proc[p].call
                was == proc[p].snap
                now == proc[p].done.doc
                result == proc[p].done.result
            IN  /\ call.fn = "addEmployee" => now = Append(was, result)
                /\ call.fn = "updateEmployee" =>
                       LET i == FirstWithId(was, call.updated.id)
                       IN  now = [was EXCEPT ![i] = call.updated]
                /\ call.fn = "deleteEmployee" =>
                       now = SelectSeq(was, LAMBDA e : e.id # call.id)
                /\ call.fn = "addDependent" =>
                       LET i == FirstWithId(was, call.data.employeeId)
                       IN  now = [was EXCEPT
                                     ![i].dependents = Append(@, result.value)]
                /\ call.fn = "updateDependent" =>
                       LET i == FirstWithId(was, call.dep.employeeId)
                           k == FirstWithId(was[i].dependents, call.dep.id)
                       IN  now = [was EXCEPT ![i].dependents[k] = call.dep]
                /\ call.fn = "deleteDependent" =>
                       LET i == FirstWithId(was, call.employeeId)
                       IN  now = [was EXCEPT
                                     ![i].dependents =
                                         SelectSeq(@, LAMBDA d : d.id # call.dependentId)]

\* C20 witness: a delete has left two records behind, of three.
C20_Witness ==
    \E p \in Callers :
        /\ proc[p].pc = "returned"
        /\ proc[p].done.write
        /\ \/ /\ proc[p].call.fn = "deleteEmployee"
              /\ Len(proc[p].snap) = 3
              /\ Len(proc[p].done.doc) = 2
           \/ /\ proc[p].call.fn = "deleteDependent"
              /\ Len(proc[p].snap[1].dependents) = 3
              /\ Len(proc[p].done.doc[1].dependents) = 2

\* --------------------------------------------- the two implementations

\* The other implementation's result for the call in calcOut.
OtherCalcValue ==
    IF CalcIsSingle
    THEN IF calcOut.impl = "employeeStore"
         THEN serviceCalculateBenefits(CalcArg)
         ELSE calculateBenefits(CalcArg)
    ELSE IF calcOut.impl = "employeeStore"
         THEN serviceCalculateTotalBenefits(calcInput)
         ELSE calculateTotalBenefits(calcInput)

\* No first name of the record starts with a lower-case 'a'.
NoLowerCaseA(employee) ==
    /\ ~startsWith(employee.firstName, <<"a">>)
    /\ \A i \in 1..Len(employee.dependents) :
           ~startsWith(employee.dependents[i].firstName, <<"a">>)

\* C27: the two implementations agree: for every employee, the service's
\* and the store's calculateBenefits return the same employeeCost,
\* dependentCost, discount, totalCost, perPaycheck and perYear, and the two
\* calculateTotalBenefits return the same six values for the same list.
C27_ImplementationsAgree ==
    (CalcIsSingle \/ CalcIsTotal) =>
        \A field \in CostFields : calcOut.value[field] = OtherCalcValue[field]

\* C27 restricted to lists without a first name starting with a lower-case
\* 'a' (holds).
C27_AgreeWithoutLowerCaseA ==
    /\ (CalcIsSingle /\ NoLowerCaseA(CalcArg)) =>
           \A field \in CostFields : calcOut.value[field] = OtherCalcValue[field]
    /\ (CalcIsTotal /\ \A i \in 1..Len(calcInput) : NoLowerCaseA(calcInput[i])) =>
           \A field \in CostFields : calcOut.value[field] = OtherCalcValue[field]

\* ------------------------------------------------ frame of a mutation

\* The records of the document that are not addressed by id, in order.
Others(doc, id) == SelectSeq(doc, LAMBDA e : e.id # id)

EmployeeIds(doc) == {doc[i].id : i \in 1..Len(doc)}

\* The documents left by update and dependent requests addressed to id.
AfterUpdateOrDependent(doc, id) ==
    {PutEmployeeHandler(doc, id, body).doc : body \in UpdateEmployeeBodies}
        \cup {PostDependentHandler(doc, id, body, nextId).doc :
                  body \in CreateDependentBodies}
        \cup {PutDependentHandler(doc, id, body).doc : body \in UpdateDependentBodies}
        \cup {DeleteDependentHandler(doc, id, body).doc : body \in DeleteDependentBodies}

\* C29: every store mutation addressed to employee id E (update or delete
\* of E, create, update or delete of a dependent under E) leaves every other
\* employee record, its dependents list included, unchanged, and update and
\* dependent operations leave the set of employee ids unchanged.
C29_OtherRecordsUnchanged ==
    \A id \in Ids :
        /\ Others(DeleteEmployeeHandler(store, id).doc, id) = Others(store, id)
        /\ \A now \in AfterUpdateOrDependent(store, id) :
               /\ Others(now, id) = Others(store, id)
               /\ EmployeeIds(now) = EmployeeIds(store)
               /\ Len(now) = Len(store)

\* C29 witness: a dependent was deleted under one employee while the other
\* employee of the store has a dependent.
C29_Witness ==
    /\ resp = [route |-> "DELETE /api/employees/[id]/dependents", status |-> 200]
    /\ Len(store) = 2
    /\ store[1].id # store[2].id
    /\ \E i \in 1..2 : store[i].dependents # <<>>

\* ------------------------------------------------- claims on the client

\* Every dispatched thunk has settled and every flow has run to its end.
AllSettled ==
    /\ view.mounted
    /\ \A slot \in ThunkSlots : thunks[slot].phase = "idle"
    /\ ~view.form.submitting

\* The calculation the server gives for each employee of the list.
CurrentBenefits(list) ==
    [id \in {list[i].id : i \in 1..Len(list)} |->
        calculateBenefits(getEmployeeById(store, id).value)]

\* C21: the Redux state is in sync with the API: once every dispatched thunk
\* has settled (no request having failed), state.employees equals the
\* server's employee list, state.totalBenefits equals the server's aggregate
\* for that list, and state.employeeBenefits holds exactly the current
\* calculation of each employee in the list.
C21_StateInSyncWithApi ==
    (AllSettled /\ view.failures = 0) =>
        /\ state.employees = store
        /\ state.totalBenefits = Some(calculateTotalBenefits(store))
        /\ state.employeeBenefits = CurrentBenefits(state.employees)

\* The thunks a form's handleSubmit dispatches first.
MutationTypes == {"addEmployee", "updateEmployee", "addDependent", "updateDependent"}

\* The step is the one in which a thunk awaited by handleSubmit settles.
FormThunkSettles ==
    /\ thunks["form"].phase = "answered"
    /\ thunks'["form"].phase # "answered"

\* This step, handleSubmit dispatches its mutation.
FormDispatchesMutation ==
    /\ thunks["form"].phase = "idle"
    /\ thunks'["form"].phase = "sent"

\* One step of a submit, as the claim C22 words it.
C22_SubmitStep ==
    LET form == view.form
        thunk == thunks["form"]
    IN  /\ FormThunkSettles =>
               IF thunk.type \in MutationTypes
               THEN IF thunk.response.kind = "success"
                    THEN \* fulfilled: the refetch starts, the modal stays
                         /\ thunks'["form"].type = "fetchEmployees"
                         /\ view'.form = form
                    ELSE \* rejected: the modal stays, with an error message
                         /\ thunks'["form"].phase = "idle"
                         /\ view'.form.show = form.show
                         /\ view'.form.error.present
                         /\ ~view'.form.submitting
               ELSE IF thunk.type = "fetchEmployees"
               THEN /\ thunks'["form"].type = "fetchTotalBenefits"
                    /\ view'.form = form
               ELSE \* both refetches have settled: onHide()
                    /\ thunks'["form"].phase = "idle"
                    /\ ~view'.form.show
                    /\ ~view'.form.submitting
        /\ FormDispatchesMutation =>
               /\ trim(thunks'["form"].arg.firstName) # <<>>
               /\ trim(thunks'["form"].arg.lastName) # <<>>
               /\ thunks'["form"].type \in MutationTypes
        /\ (form.submitting /\ form.show /\ ~view'.form.show) =>
               \/ FormThunkSettles /\ thunk.type = "fetchTotalBenefits"
               \/ UNCHANGED thunks

\* C22: in EmployeeForm and DependentForm a submit closes the modal (onHide)
\* only after the add/update thunk has fulfilled and the refetches of
\* employees and total benefits have settled; when the mutation is rejected
\* the modal stays open with an error message; a submit with a blank or
\* whitespace-only first or last name dispatches no mutation; and the
\* submitting flag is false again once the submit has finished.
C22_SubmitClosesAfterRefetch ==
    /\ [][C22_SubmitStep]_vars
    /\ [](view.form.submitting <=> thunks["form"].phase # "idle")

\* C22 witness: an employee was added through the form, both refetches have
\* settled and the submit has closed the modal.
C22_Witness ==
    /\ view.events = 3
    /\ view.form.kind = "addEmployee"
    /\ ~view.form.show
    /\ ~view.form.submitting
    /\ thunks["form"].phase = "idle"
    /\ Len(store) = 1
    /\ store[1].firstName = <<"A", "l">>
    /\ state.totalBenefits = Some(calculateTotalBenefits(store))

\* C23: inline dependent editing in the Employee component: Edit on a
\* dependent while no inline edit is showing (showInlineDependentEdit is
\* false), or on the dependent already being edited, sets editingDependent to
\* that dependent and showInlineDependentEdit to true; Edit on a different
\* dependent while an inline edit is showing opens the confirmation modal and
\* leaves editingDependent unchanged until Continue is pressed; Cancel closes
\* the confirmation and leaves editingDependent and the inline edit
\* unchanged.
C23_InlineEditAsksBeforeSwitching ==
    /\ [](\A dependent \in InlineDependents :
              LET after == handleEditInlineDependent(inline, dependent)
              IN  IF ~inline.showInlineDependentEdit \/ IsEditing(inline, dependent)
                  THEN /\ after.editingDependent = Some(dependent)
                       /\ after.showInlineDependentEdit
                       /\ after.showConfirmModal = inline.showConfirmModal
                  ELSE /\ after.showConfirmModal
                       /\ after.pendingEditDependent = Some(dependent)
                       /\ after.editingDependent = inline.editingDependent
                       /\ after.showInlineDependentEdit)
    /\ [](inline.showConfirmModal =>
              LET cancelled == handleCancelEdit(inline)
                  continued == handleConfirmEdit(inline)
              IN  /\ ~cancelled.showConfirmModal
                  /\ cancelled.editingDependent = inline.editingDependent
                  /\ cancelled.showInlineDependentEdit = inline.showInlineDependentEdit
                  /\ cancelled.dependentInlineFirstName = inline.dependentInlineFirstName
                  /\ cancelled.dependentInlineLastName = inline.dependentInlineLastName
                  /\ continued.editingDependent = inline.pendingEditDependent
                  /\ continued.showInlineDependentEdit
                  /\ ~continued.showConfirmModal)
    /\ [][(inline.showConfirmModal
              /\ inline'.editingDependent # inline.editingDependent) =>
             /\ inline'.editingDependent = inline.pendingEditDependent
             /\ ~inline'.showConfirmModal]_vars

\* C23 witness: while one dependent is edited inline with a changed name,
\* Edit on another one has opened the confirmation.
C23_Witness ==
    /\ inline.showConfirmModal
    /\ inline.showInlineDependentEdit
    /\ inline.editingDependent = Some(InlineEmployee.dependents[1])
    /\ inline.pendingEditDependent = Some(InlineEmployee.dependents[2])
    /\ inline.dependentInlineFirstName = Al

\* The frame of C24 on one lifecycle action; recorded says what
\* fetchEmployees.rejected has to leave in state.error.
FrameOfLoadingAndError(action, after, recorded) ==
    IF action.type # "fetchEmployees"
    THEN after.loading = state.loading /\ after.error = state.error
    ELSE CASE action.requestStatus = "pending" ->
                  after.loading /\ ~after.error.present
           [] action.requestStatus = "fulfilled" ->
                  after.employees = action.payload /\ ~after.loading
           [] action.requestStatus = "rejected" ->
                  /\ ~after.loading
                  /\ recorded
                  /\ after.employees = state.employees

\* C24: fetchEmployees.pending sets loading to true and clears error;
\* fetchEmployees.fulfilled replaces state.employees with the payload and
\* sets loading to false; fetchEmployees.rejected sets loading to false,
\* records the error and leaves state.employees unchanged; no other thunk's
\* pending, fulfilled or rejected action changes loading or error.
C24_OnlyFetchEmployeesSetsLoadingAndError ==
    /\ \A type \in ThunkTypes :
           LET after == benefitsReducer(state, Pending(type))
           IN  FrameOfLoadingAndError(Pending(type), after, TRUE)
    /\ \A slot \in ThunkSlots :
           thunks[slot].phase = "answered" =>
               LET action == Settled(thunks[slot])
                   after == benefitsReducer(state, action)
               IN  FrameOfLoadingAndError(action, after, after.error.present)

\* C24 with "records the error" read as: state.error becomes action.payload,
\* whatever it is (holds).
C24_RejectedStoresPayload ==
    /\ \A type \in ThunkTypes :
           LET after == benefitsReducer(state, Pending(type))
           IN  FrameOfLoadingAndError(Pending(type), after, TRUE)
    /\ \A slot \in ThunkSlots :
           thunks[slot].phase = "answered" =>
               LET action == Settled(thunks[slot])
                   after == benefitsReducer(state, action)
               IN  FrameOfLoadingAndError(action, after,
                                          after.error = action.payload)

\* The step is one of the thunk dispatched by handleDeleteEmployee.
DeleteEmployeeStep ==
    /\ \/ thunks["click"].type = "deleteEmployee"
       \/ thunks["click"].type = "fetchTotalBenefits"
    /\ \/ thunks'["click"].phase # thunks["click"].phase
       \/ thunks'["click"].type # thunks["click"].type

\* C25: deleteEmployeeAsync removes the employee from state.employees only
\* after the server reported success and after the total-benefits refetch it
\* dispatches has settled; if the server reports an error (NotFound, or the
\* request fails) state.employees and state.totalBenefits are unchanged.
C25_DeleteAfterSuccessAndRefetch ==
    [][DeleteEmployeeStep =>
          LET thunk == thunks["click"]
          IN  CASE thunk.phase = "sent" ->
                       \* the request is handled, or fails
                       state' = state
                [] thunk.type = "deleteEmployee" /\ thunk.response.kind = "success" ->
                       \* success: the refetch is dispatched, nothing removed
                       /\ thunks'["click"].type = "fetchTotalBenefits"
                       /\ thunks'["click"].phase = "sent"
                       /\ state'.employees = state.employees
                       /\ ~HasEmployee(store, thunk.arg)
                [] thunk.type = "deleteEmployee" /\ thunk.response.kind # "success" ->
                       /\ thunks'["click"].phase = "idle"
                       /\ state'.employees = state.employees
                       /\ state'.totalBenefits = state.totalBenefits
                [] OTHER ->
                       \* the refetch has settled: fulfilled, the id is removed
                       /\ thunks'["click"].phase = "idle"
                       /\ state'.employees = Others(state.employees, thunk.arg)
                       /\ thunk.response.kind = "success" =>
                              state'.totalBenefits = Some(thunk.response.data)
                       /\ thunk.response.kind # "success" =>
                              state'.totalBenefits = state.totalBenefits]_vars

\* C25 witness: the page has deleted the only employee (no other client
\* acted): the delete and its refetch have settled, the list is empty and
\* the total is the server's total for no employees.
C25_Witness ==
    /\ AllSettled
    /\ view.others = 0
    /\ view.failures = 0
    /\ nextId > 1
    /\ store = <<>>
    /\ state.employees = <<>>
    /\ state.totalBenefits = Some(calculateTotalBenefits(<<>>))

\* The step is the one in which the server handles the update-employee
\* request of EmployeeForm and answers success.
FormUpdateSucceeds ==
    /\ thunks["form"].type = "updateEmployee"
    /\ thunks["form"].phase = "sent"
    /\ thunks'["form"].phase = "answered"
    /\ thunks'["form"].response.kind = "success"

\* C28: editing an employee's name never changes that employee's
\* dependents: after an update-employee request issued from EmployeeForm
\* succeeds, the stored employee has the same id and the same dependents
\* list that the store held just before the update, dependents added or
\* removed by other requests since the form took its employee included.
C28_UpdateKeepsDependents ==
    [][FormUpdateSucceeds =>
          LET id == thunks["form"].arg.id
          IN  /\ HasEmployee(store', id)
              /\ getEmployeeById(store', id).value.id = id
              /\ getEmployeeById(store', id).value.dependents =
                     getEmployeeById(store, id).value.dependents]_vars

\* What does hold: the stored employee has the id of the request and the
\* dependents list the form sent, the one Redux held when Save was clicked.
C28_UpdateStoresFormDependents ==
    [][FormUpdateSucceeds =>
          LET id == thunks["form"].arg.id
          IN  /\ HasEmployee(store', id)
              /\ getEmployeeById(store', id).value.id = id
              /\ getEmployeeById(store', id).value.dependents =
                     thunks["form"].arg.dependents]_vars

\* The step is the one in which the fetch awaited or dispatched in the slot
\* settles rejected.
FetchSettlesRejected(slot) ==
    /\ thunks[slot].phase = "answered"
    /\ thunks[slot].response.kind # "success"
    /\ thunks'[slot].phase # "answered"

\* One step of the page, for the fetches EmployeeList makes: the order of
\* loadData, the effect on the employee list, and an error after a failed
\* fetch of one of the slots.
EmployeeListStep(slots) ==
    /\ (~view.mounted /\ view'.mounted) =>
           /\ thunks'["loadData"].type = "fetchEmployees"
           /\ thunks'["loadData"].phase = "sent"
           /\ thunks'["effect"].phase = "idle"
    /\ (thunks'["loadData"].type = "fetchTotalBenefits"
           /\ thunks["loadData"].type # "fetchTotalBenefits") =>
           /\ thunks["loadData"].type = "fetchEmployees"
           /\ thunks["loadData"].phase = "answered"
           /\ thunks["loadData"].response.kind = "success"
           /\ state'.employees = thunks["loadData"].response.data
    /\ (state'.employees # state.employees /\ Len(state'.employees) > 0) =>
           /\ thunks'["effect"] = BenefitsThunk(state'.employees)
           /\ thunks["effect"].phase = "idle"
    /\ \A slot \in slots :
           FetchSettlesRejected(slot) => state'.error.present

\* C26: on mount EmployeeList fetches employees first and total benefits
\* only after the employee fetch has fulfilled, and fetches per-employee
\* benefits whenever the employee list changes to a non-empty list; whether
\* the fetches succeed or fail loading is false once they have settled, and
\* when a fetch fails an error is set.
C26_MountFetchesInOrder ==
    /\ [][EmployeeListStep({"loadData", "effect"})]_vars
    /\ [](AllSettled => ~state.loading)

\* What does hold: the same with an error set only after a failed fetch of
\* loadData (employees, total benefits), not of fetchEmployeeBenefits.
C26_LoadDataFailureSetsError ==
    /\ [][EmployeeListStep({"loadData"})]_vars
    /\ [](AllSettled => ~state.loading)

====
